---- MODULE Spec2Model ----
(***************************************************************************)
(* Scraping orchestration engine of src/scraping:                          *)
(*   - ScrapingOrchestrator.run_scrapers / _run_single_scraper             *)
(*     (base_scraper.py), specification Spec;                              *)
(*   - BaseScraper.fetch_url (base_scraper.py), specification SpecFetch;   *)
(*   - ComprehensiveScrapingManager.run_comprehensive_scrape and           *)
(*     schedule_scraping (scraping_manager.py), specification SpecSched;   *)
(*   - update_scraping_history and get_scraping_stats, specifications      *)
(*     SpecHistory and SpecStats;                                          *)
(*   - BaseScraper.normalize_data, specifications SpecNormalize and        *)
(*     SpecRecords; JobScrapingManager.rank_jobs and search_jobs           *)
(*     (job_scrapers.py), specifications SpecRank and SpecSearch;          *)
(*   - the scrape loops of the sources, specification SpecScrape;          *)
(*   - the parameters on their way to scrape, specification SpecCall;      *)
(*   - the routes of src/api/scraping_routes.py on the shared manager,     *)
(*     specification SpecRoutes; overlapping invocations of one scraper    *)
(*     instance, specification SpecOverlap;                                *)
(*   - rank_jobs on normalized records, specification SpecRankNormalized.  *)
(* Names that the source files use without importing them (asyncio,        *)
(* BeautifulSoup, ScrapingOrchestrator, logging) are read as resolved.     *)
(***************************************************************************)
EXTENDS Integers, Sequences, FiniteSets, TLC

VARIABLES
    \* ---- ScrapingOrchestrator (one call of run_scrapers)
    max_concurrent,   \* ScrapingConfig.max_concurrent shared by the scrapers
    run_pc,           \* position of run_scrapers: "idle", "gather", "returned"
    scraper_names,    \* the list run_scrapers zips the results with
    tasks,            \* the coroutines handed to asyncio.gather, in list order
    session,          \* BaseScraper.session of every registered scraper
    completion,       \* task indices in the order the coroutines finished
    consolidated,     \* the mapping run_scrapers returns

    \* ---- BaseScraper.fetch_url (one call)
    retry_attempts,   \* ScrapingConfig.retry_attempts
    fetch_pc,         \* "config" (no source built yet), "idle",
                      \* "attempting", "sleeping", "returned"
    attempt,          \* the loop variable of fetch_url
    responses,        \* what each request issued so far met
    waits,            \* the backoff sleeps performed so far
    fetch_result,     \* what fetch_url returned
    user_agents,      \* ScrapingConfig.user_agents, the identity pool
    identities,       \* the User-Agent picked for each attempt so far
    \* ---- ComprehensiveScrapingManager
    has_logger,       \* whether the manager instance has a `logger` attribute
    interval_minutes, \* the argument of schedule_scraping
    sched_pc,         \* schedule_scraping: "idle", "loop", "running",
                      \* "sleeping", "raised"
    cycles,           \* iterations of the scheduler loop started so far
    slept,            \* the sleeps of schedule_scraping, in seconds
    mgr_pc,           \* run_comprehensive_scrape: "idle", "loop", "scraping",
                      \* "returned", "raised"
    targets,          \* the categories of the run, in the mapping's order
    cat_idx,          \* position of the run's loop in targets
    results,          \* the mapping run_comprehensive_scrape builds
    scraping_history, \* ComprehensiveScrapingManager.scraping_history
    faults,           \* failures of the environment (a scrape, a save, a
                      \* session raising) met by the manager so far
    \* ---- BaseScraper.normalize_data
    batch,            \* the list of records at hand
    passes,           \* times normalize_data has been applied to it
    \* ---- JobScrapingManager.rank_jobs and search_jobs
    query,            \* the query string, a sequence of characters
    now,              \* datetime.now() at the call, in ticks
    jobs,             \* the list of records handed to rank_jobs
    ranked,           \* the list rank_jobs returned
    rank_pc,          \* "idle", "returned"
    \* ---- scrape of one source (one call)
    variant,          \* which source class the instance is of
    request_delay,    \* ScrapingConfig.request_delay, in ticks
    plan,             \* how each URL of the call is requested, in the
                      \* order the loops of scrape visit them
    scrape_pc,        \* "idle", "fetching", "delay", "returned", "raised"
    fetched,          \* what each URL visited so far met
    all_items,        \* the records accumulated by the loops
    events,           \* the requests and request_delay sleeps, in order
    scrape_result,    \* what scrape returned
    \* ---- get_scraping_stats (one call)
    stats_pc,         \* get_scraping_stats: "idle", "checked", "read",
                      \* "returned"
    latest,           \* the local `latest` of get_scraping_stats
    stats,            \* what get_scraping_stats returned
    \* ---- the parameters a caller's call hands on to scrape
    call_pc,          \* "idle", "scrape_all_jobs", "run_scrapers", "returned"
    supplied,         \* the keyword arguments the caller supplied
    scrape_args,      \* source -> the keyword arguments its scrape was
                      \* invoked with
    \* ---- invocations of one scraper instance that overlap
    inv,              \* invocation -> position of _run_single_scraper and
                      \* what its requests met
    self_session,     \* the instance's self.session: 0 for None, else the
                      \* number of a ClientSession
    client_sessions   \* the ClientSession objects made so far, each "open"
                      \* or "closed"

orchVars == <<max_concurrent, run_pc, scraper_names, tasks, session,
              completion, consolidated>>

fetchVars == <<retry_attempts, fetch_pc, attempt, responses, waits,
               fetch_result, user_agents, identities>>

schedVars == <<has_logger, interval_minutes, sched_pc, cycles, slept>>

mgrVars == <<mgr_pc, targets, cat_idx, results, scraping_history, faults>>

normVars == <<batch, passes>>

rankVars == <<query, now, jobs, ranked, rank_pc>>

scrapeVars == <<variant, request_delay, plan, scrape_pc, fetched, all_items,
                events, scrape_result>>

statsVars == <<stats_pc, latest, stats>>

paramVars == <<call_pc, supplied, scrape_args>>

overlapVars == <<inv, self_session, client_sessions>>

callVars == <<paramVars, overlapVars>>

restVars == <<scrapeVars, statsVars, callVars>>

\* The state of the record functions (normalize_data and rank_jobs), of a
\* source's scrape and of the readers of the history.
dataVars == <<normVars, rankVars, restVars>>

vars == <<orchVars, fetchVars, schedVars, mgrVars, dataVars>>

----------------------------------------------------------------------------
\* Bounds of the model.
MaxRecords == 1        \* a scrape returns 0..MaxRecords records
MaxConcurrent == 2     \* max_concurrent ranges over 1..MaxConcurrent
MaxRetryAttempts == 3  \* retry_attempts ranges over 0..MaxRetryAttempts
TicksPerSecond == 2    \* resolution of time: one tick is 1/TicksPerSecond s
MaxCycles == 2         \* the scheduler loop is followed for MaxCycles cycles
MaxFaults == 1         \* failures of the environment met by the manager

----------------------------------------------------------------------------
\* Python's None, and str(e) of a captured exception.
None == "None"
ErrText == "exception"

\* Python values: a kind and a payload. Strings are sequences of characters;
\* a list holds its items, a dict its keys (each mapped to 1).
PyNone == [t |-> "none", v |-> <<>>]
PyStr(chars) == [t |-> "str", v |-> chars]
PyNum(n) == [t |-> "num", v |-> <<n>>]
PyList(items) == [t |-> "list", v |-> items]
PyDict(keys) == [t |-> "dict", v |-> keys]

\* JobScrapingManager.__init__ registers these, in this order.
Registered == <<"linkedin", "indeed", "careerjunction">>
Names == {Registered[k] : k \in DOMAIN Registered}
\* A name no scraper is registered under.
Unregistered == {"glassdoor"}

\* ComprehensiveScrapingManager.__init__ lines 20-28: the categories served
\* by a BaseScraper directly, and all categories.
DirectScrapers == {"financial", "real_estate", "odds", "teams", "api", "web"}
ScraperCategories == {"jobs"} \cup DirectScrapers

\* Every BaseScraper instance: each has a session of its own.
Scrapers == Names \cup DirectScrapers

Min(a, b) == IF a <= b THEN a ELSE b

Range(s) == {s[k] : k \in DOMAIN s}

\* The records a source produces: each tagged with its source.
Batch(n, c) == [i \in 1..c |-> [source |-> n, item |-> i]]

\* Lists of distinct names a caller may pass as scraper_names.
NameLists ==
    {s \in UNION {[1..l -> Names \cup Unregistered] : l \in 1..Len(Registered)} :
        \A i, j \in DOMAIN s : i # j => s[i] # s[j]}

\* run_scrapers lines 156-159: one coroutine per requested name that is
\* registered, in the order of the request.
RECURSIVE FilterRegistered(_)
FilterRegistered(s) ==
    IF s = <<>> THEN <<>>
    ELSE IF Head(s) \in Names
         THEN <<Head(s)>> \o FilterRegistered(Tail(s))
         ELSE FilterRegistered(Tail(s))

NewTask(n) ==
    [name |-> n, pc |-> "created", failed |-> "none", scraped |-> FALSE,
     produced |-> <<>>, ret |-> <<>>, raised |-> FALSE]

----------------------------------------------------------------------------
\* ScrapingOrchestrator

InitOrch ==
    /\ max_concurrent \in 1..MaxConcurrent
    /\ run_pc = "idle"
    /\ scraper_names = <<>>
    /\ tasks = <<>>
    /\ session = [n \in Scrapers |-> "none"]
    /\ completion = <<>>
    /\ consolidated = <<>>

\* run_scrapers lines 153-161: scraper_names defaults to every registered
\* name; the coroutines are created and handed to asyncio.gather.
run_scrapers_call(is_none, names) ==
    /\ run_pc = "idle"
    /\ scraper_names' = (IF is_none THEN Registered ELSE names)
    /\ tasks' = [k \in DOMAIN FilterRegistered(scraper_names') |->
                    NewTask(FilterRegistered(scraper_names')[k])]
    /\ run_pc' = "gather"
    /\ UNCHANGED <<max_concurrent, session, completion, consolidated>>
    /\ UNCHANGED <<fetchVars, schedVars, mgrVars, dataVars>>

\* A coroutine that has left _run_single_scraper.
Terminal(t) == t.pc = "done"

\* A coroutine whose scrape() is in flight.
InFlight(t) == t.pc = "scraping"

\* gather schedules the coroutines in list order: a coroutine takes its first
\* step only after the ones before it in the list have taken theirs.
MayStart(i) ==
    /\ run_pc = "gather"
    /\ i \in DOMAIN tasks
    /\ tasks[i].pc = "created"
    /\ \A j \in 1..(i - 1) : tasks[j].pc # "created"

\* BaseScraper.close lines 50-51: an existing session is closed.
SessionAfterClose(s) == IF s = "none" THEN "none" ELSE "closed"

\* _run_single_scraper line 175 succeeding: the session is opened and
\* scrape() (line 176) is entered; it suspends on its first fetch.
initialize_ok(i) ==
    /\ MayStart(i)
    /\ session' = [session EXCEPT ![tasks[i].name] = "open"]
    /\ tasks' = [tasks EXCEPT ![i].pc = "scraping"]
    /\ UNCHANGED <<max_concurrent, run_pc, scraper_names, completion,
                   consolidated>>
    /\ UNCHANGED <<fetchVars, schedVars, mgrVars, dataVars>>

\* _run_single_scraper line 175 raising: lines 179-181 return [], and the
\* finally clause (line 183) runs close(), which finds the session as it was.
initialize_raises(i) ==
    /\ MayStart(i)
    /\ tasks' = [tasks EXCEPT ![i].failed = "initialize", ![i].ret = <<>>,
                              ![i].pc = "closing"]
    /\ UNCHANGED <<max_concurrent, run_pc, scraper_names, session,
                   completion, consolidated>>
    /\ UNCHANGED <<fetchVars, schedVars, mgrVars, dataVars>>

\* Mutant of ReturnAfterSave: the records are dropped on every path.
ReturnAfterSave_empty(data, save_ok) == <<>>

\* What _run_single_scraper hands back when scrape() returned `data` and
\* save_data (line 177) did or did not raise: lines 178 and 179-181.
ReturnAfterSave(data, save_ok) == IF save_ok THEN data ELSE <<>>

\* scrape() returns c records (line 176), then save_data runs (line 177).
scrape_returns(i, c, save_ok) ==
    /\ run_pc = "gather"
    /\ i \in DOMAIN tasks
    /\ InFlight(tasks[i])
    /\ tasks' = [tasks EXCEPT
          ![i].scraped = TRUE,
          ![i].produced = Batch(tasks[i].name, c),
          ![i].failed = IF save_ok THEN "none" ELSE "save_data",
          ![i].ret = ReturnAfterSave(Batch(tasks[i].name, c), save_ok),
          ![i].pc = "closing"]
    /\ UNCHANGED <<max_concurrent, run_pc, scraper_names, session,
                   completion, consolidated>>
    /\ UNCHANGED <<fetchVars, schedVars, mgrVars, dataVars>>

\* scrape() raises (line 176): lines 179-181 log and return [].
scrape_raises(i) ==
    /\ run_pc = "gather"
    /\ i \in DOMAIN tasks
    /\ InFlight(tasks[i])
    /\ tasks' = [tasks EXCEPT ![i].failed = "scrape", ![i].ret = <<>>,
                              ![i].pc = "closing"]
    /\ UNCHANGED <<max_concurrent, run_pc, scraper_names, session,
                   completion, consolidated>>
    /\ UNCHANGED <<fetchVars, schedVars, mgrVars, dataVars>>

\* The finally clause, line 183: close() completes and the coroutine
\* returns its value.
close_ok(i) ==
    /\ run_pc = "gather"
    /\ i \in DOMAIN tasks
    /\ tasks[i].pc = "closing"
    /\ session' = [session EXCEPT
                      ![tasks[i].name] = SessionAfterClose(session[tasks[i].name])]
    /\ tasks' = [tasks EXCEPT ![i].pc = "done"]
    /\ completion' = Append(completion, i)
    /\ UNCHANGED <<max_concurrent, run_pc, scraper_names, consolidated>>
    /\ UNCHANGED <<fetchVars, schedVars, mgrVars, dataVars>>

\* The finally clause, line 183: session.close() raises; the exception
\* replaces the return value and leaves the coroutine. close() awaits the
\* session only when there is one (line 50).
close_raises(i) ==
    /\ run_pc = "gather"
    /\ i \in DOMAIN tasks
    /\ tasks[i].pc = "closing"
    /\ session[tasks[i].name] = "open"
    /\ tasks' = [tasks EXCEPT ![i].pc = "done", ![i].raised = TRUE]
    /\ completion' = Append(completion, i)
    /\ UNCHANGED <<max_concurrent, run_pc, scraper_names, session,
                   consolidated>>
    /\ UNCHANGED <<fetchVars, schedVars, mgrVars, dataVars>>

\* What gather (return_exceptions=True) holds for a finished coroutine: the
\* exception that left it, or its return value.
TaskResult(t) ==
    IF t.raised THEN [exception |-> TRUE, value |-> <<>>]
    ELSE [exception |-> FALSE, value |-> t.ret]

\* Mutant of GatherDone: gather completes with the first coroutine that does
\* (asyncio.wait with FIRST_COMPLETED).
GatherDone_first_completed == \E i \in DOMAIN tasks : Terminal(tasks[i])

\* asyncio.gather, line 161: it completes when every coroutine has.
GatherDone == \A i \in DOMAIN tasks : Terminal(tasks[i])

\* Mutant of GatherResults: the results in the order the coroutines finished
\* (asyncio.as_completed).
GatherResults_as_completed ==
    [k \in DOMAIN tasks |-> TaskResult(tasks[completion[k]])]

\* asyncio.gather, line 161: the results in the order of the coroutines
\* handed to it, whatever the order they finished in.
GatherResults == [k \in DOMAIN tasks |-> TaskResult(tasks[k])]

\* run_scrapers lines 165-168: the entry made from one gathered result.
Entry(result) ==
    IF result.exception THEN [error |-> ErrText, data |-> <<>>]
    ELSE [data |-> result.value, error |-> None]

\* run_scrapers lines 163-168: zip pairs the requested names with the
\* results by position and stops at the shorter list; a later pair for the
\* same name overwrites an earlier one.
Consolidate(names, gathered) ==
    LET m == Min(Len(names), Len(gathered))
        last(n) == CHOOSE k \in 1..m :
                      /\ names[k] = n
                      /\ \A j \in 1..m : names[j] = n => j <= k
    IN [n \in {names[k] : k \in 1..m} |-> Entry(gathered[last(n)])]

\* run_scrapers lines 161-170: gather completes, the mapping is built and
\* returned.
run_scrapers_return ==
    /\ run_pc = "gather"
    /\ GatherDone
    /\ consolidated' = Consolidate(scraper_names, GatherResults)
    /\ run_pc' = "returned"
    /\ UNCHANGED <<max_concurrent, scraper_names, tasks, session, completion>>
    /\ UNCHANGED <<fetchVars, schedVars, mgrVars, dataVars>>

NextOrch ==
    \/ \E names \in NameLists : run_scrapers_call(FALSE, names)
    \/ run_scrapers_call(TRUE, <<>>)
    \/ \E i \in 1..Len(Registered) : initialize_ok(i)
    \/ \E i \in 1..Len(Registered) : initialize_raises(i)
    \/ \E i \in 1..Len(Registered), c \in 0..MaxRecords, save_ok \in BOOLEAN :
          scrape_returns(i, c, save_ok)
    \/ \E i \in 1..Len(Registered) : scrape_raises(i)
    \/ \E i \in 1..Len(Registered) : close_ok(i)
    \/ \E i \in 1..Len(Registered) : close_raises(i)
    \/ run_scrapers_return

----------------------------------------------------------------------------
\* BaseScraper.fetch_url

\* No call of run_scrapers is under way.
OrchIdle ==
    /\ max_concurrent = 1
    /\ run_pc = "idle"
    /\ scraper_names = <<>>
    /\ tasks = <<>>
    /\ session = [n \in Scrapers |-> "none"]
    /\ completion = <<>>
    /\ consolidated = <<>>

\* No record is at hand.
NormIdle ==
    /\ batch = <<>>
    /\ passes = 0

\* No call of rank_jobs or search_jobs is under way.
RankIdle ==
    /\ query = <<>>
    /\ now = 0
    /\ jobs = <<>>
    /\ ranked = <<>>
    /\ rank_pc = "idle"

\* No scrape of a single source is under way.
ScrapeIdle ==
    /\ variant = None
    /\ request_delay = 0
    /\ plan = <<>>
    /\ scrape_pc = "idle"
    /\ fetched = <<>>
    /\ all_items = <<>>
    /\ events = <<>>
    /\ scrape_result = None

\* No call of get_scraping_stats is under way.
StatsIdle ==
    /\ stats_pc = "idle"
    /\ latest = None
    /\ stats = None

ParamIdle ==
    /\ call_pc = "idle"
    /\ supplied = <<>>
    /\ scrape_args = <<>>

\* No invocation of the instance has been made (BaseScraper.__init__ line
\* 30 sets self.session = None).
OverlapIdle ==
    /\ inv = <<>>
    /\ self_session = 0
    /\ client_sessions = <<>>

CallIdle == ParamIdle /\ OverlapIdle

RestIdle == ScrapeIdle /\ StatsIdle /\ CallIdle

DataIdle == NormIdle /\ RankIdle /\ RestIdle

\* Lines 35-39: the built-in pool BaseScraper.__init__ installs.
DefaultUserAgents ==
    PyList(<<"Chrome/91 Windows", "Chrome/91 Macintosh", "Chrome/91 Linux">>)

\* No call of fetch_url is under way; the sources were built from a
\* configuration without user_agents (scraping_manager.py lines 12-17).
FetchIdle ==
    /\ retry_attempts = 0
    /\ fetch_pc = "idle"
    /\ attempt = 0
    /\ responses = <<>>
    /\ waits = <<>>
    /\ fetch_result = None
    /\ user_agents = DefaultUserAgents
    /\ identities = <<>>

\* ScrapingConfig.user_agents as a caller may create it: unset (the
\* dataclass default None), empty, or a pool of its own.
ConfiguredPools ==
    {PyNone, PyList(<<>>), PyList(<<"agent-1">>),
     PyList(<<"agent-1", "agent-2">>)}

\* A ScrapingConfig has been created; no source is built from it yet.
InitFetchUrl ==
    /\ retry_attempts \in 0..MaxRetryAttempts
    /\ fetch_pc = "config"
    /\ attempt = 0
    /\ responses = <<>>
    /\ waits = <<>>
    /\ fetch_result = None
    /\ user_agents \in ConfiguredPools
    /\ identities = <<>>

\* Line 34: `not self.config.user_agents` holds of None and of [].
Falsy(pool) == pool.t = "none" \/ pool.v = <<>>

\* Mutant of PoolAfterInit: the configured pool is kept as given.
PoolAfterInit_as_given(pool) == pool

\* Lines 34-39: the pool of the shared configuration once a source has been
\* constructed with it.
PoolAfterInit(pool) == IF Falsy(pool) THEN DefaultUserAgents ELSE pool

\* Lines 28-39: BaseScraper.__init__ (every source's __init__ calls it).
BaseScraper_init ==
    /\ fetch_pc = "config"
    /\ user_agents' = PoolAfterInit(user_agents)
    /\ fetch_pc' = "idle"
    /\ UNCHANGED <<retry_attempts, attempt, responses, waits, fetch_result,
                   identities>>
    /\ UNCHANGED <<orchVars, schedVars, mgrVars, dataVars>>

\* Mutant of IdentityChoices: the built-in pool whatever the configuration.
IdentityChoices_builtin == Range(DefaultUserAgents.v)

\* Line 58: what random.choice(self.config.user_agents) may return.
IdentityChoices == Range(user_agents.v)

\* Lines 55-64 called on line 70: the attempt builds its headers with the
\* identity ua.
get_random_headers(ua) ==
    /\ ua \in IdentityChoices
    /\ identities' = Append(identities, ua)

\* Line 70 inside the try of line 69: random.choice raises on an empty pool
\* and on None, and the attempt, left without identity, ends in the handler
\* of line 80.
RaisingIdentities == IF IdentityChoices = {} THEN {None} ELSE IdentityChoices

\* Bodies a status-200 response may carry.
Bodies == {"", "<html>"}

\* random.random(), in ticks: a value in [0, 1) second.
Jitter == 0..(TicksPerSecond - 1)

\* Lines 75 and 84: (2 ** attempt) + random.random(), in ticks.
BackoffBase(a) == (2 ^ a) * TicksPerSecond

\* Mutant of wait_time: 2 * attempt for 2 ** attempt.
wait_time_product(a, jitter) == (2 * a) * TicksPerSecond + jitter

wait_time(a, jitter) == BackoffBase(a) + jitter

\* Mutant of HasNextAttempt: range(retry_attempts + 1).
HasNextAttempt_one_more(a) == a < retry_attempts

\* Line 68: `for attempt in range(retry_attempts)` has another iteration
\* after the one with loop variable a.
HasNextAttempt(a) == a + 1 < retry_attempts

\* Mutant of IsFinalAttempt: the test of line 82 never holds.
IsFinalAttempt_never(a) == FALSE

\* Line 82: the attempt with loop variable a is the final one.
IsFinalAttempt(a) == a = retry_attempts - 1

\* Lines 68 and 86: the loop moves to its next iteration, or is exhausted
\* and fetch_url returns None.
LoopContinues ==
    IF HasNextAttempt(attempt)
    THEN /\ attempt' = attempt + 1
         /\ fetch_pc' = "attempting"
         /\ fetch_result' = fetch_result
    ELSE /\ attempt' = attempt
         /\ fetch_pc' = "returned"
         /\ fetch_result' = None

\* Line 66-68: fetch_url is called; with retry_attempts = 0 the loop body
\* never runs and line 86 returns None.
fetch_url_call ==
    /\ fetch_pc = "idle"
    /\ attempt' = 0
    /\ IF 0 < retry_attempts
       THEN fetch_pc' = "attempting" /\ fetch_result' = fetch_result
       ELSE fetch_pc' = "returned" /\ fetch_result' = None
    /\ UNCHANGED <<retry_attempts, responses, waits, user_agents, identities>>
    /\ UNCHANGED <<orchVars, schedVars, mgrVars, dataVars>>

\* Mutant of response_200: the body is kept and the loop goes on.
response_200_no_return(body, ua) ==
    /\ fetch_pc = "attempting"
    /\ get_random_headers(ua)
    /\ responses' = Append(responses, [status |-> "200", body |-> body])
    /\ IF HasNextAttempt(attempt)
       THEN attempt' = attempt + 1 /\ fetch_pc' = "attempting"
       ELSE attempt' = attempt /\ fetch_pc' = "returned"
    /\ fetch_result' = body
    /\ UNCHANGED <<retry_attempts, waits, user_agents>>
    /\ UNCHANGED <<orchVars, schedVars, mgrVars, dataVars>>

\* Lines 70-73: the request, sent with the identity ua, answers 200 and the
\* body is read and returned.
response_200(body, ua) ==
    /\ fetch_pc = "attempting"
    /\ get_random_headers(ua)
    /\ responses' = Append(responses, [status |-> "200", body |-> body])
    /\ fetch_result' = body
    /\ fetch_pc' = "returned"
    /\ UNCHANGED <<retry_attempts, attempt, waits, user_agents>>
    /\ UNCHANGED <<orchVars, schedVars, mgrVars, dataVars>>

\* Lines 70 and 74-77: the request answers 429; fetch_url sleeps wait_time.
response_429(jitter, ua) ==
    /\ fetch_pc = "attempting"
    /\ get_random_headers(ua)
    /\ responses' = Append(responses, [status |-> "429", body |-> None])
    /\ waits' = Append(waits, [attempt |-> attempt, after |-> "429",
                               ticks |-> wait_time(attempt, jitter)])
    /\ fetch_pc' = "sleeping"
    /\ UNCHANGED <<retry_attempts, attempt, fetch_result, user_agents>>
    /\ UNCHANGED <<orchVars, schedVars, mgrVars, dataVars>>

\* Mutant of response_other: the status is treated as a rate limit.
response_other_backoff(ua) ==
    /\ fetch_pc = "attempting"
    /\ get_random_headers(ua)
    /\ responses' = Append(responses, [status |-> "other", body |-> None])
    /\ waits' = Append(waits, [attempt |-> attempt, after |-> "other",
                               ticks |-> wait_time(attempt, 0)])
    /\ fetch_pc' = "sleeping"
    /\ UNCHANGED <<retry_attempts, attempt, fetch_result, user_agents>>
    /\ UNCHANGED <<orchVars, schedVars, mgrVars, dataVars>>

\* Lines 70 and 78-79: any other status is logged and the loop goes on at
\* once.
response_other(ua) ==
    /\ fetch_pc = "attempting"
    /\ get_random_headers(ua)
    /\ responses' = Append(responses, [status |-> "other", body |-> None])
    /\ LoopContinues
    /\ UNCHANGED <<retry_attempts, waits, user_agents>>
    /\ UNCHANGED <<orchVars, schedVars, mgrVars, dataVars>>

\* Lines 70-71 and 80-84: building the headers, the request sent with the
\* identity ua, or reading its body raises; the final attempt returns None,
\* any other sleeps wait_time.
request_raises(jitter, ua) ==
    /\ fetch_pc = "attempting"
    /\ ua \in RaisingIdentities
    /\ identities' = Append(identities, ua)
    /\ responses' = Append(responses, [status |-> "transport", body |-> None])
    /\ IF IsFinalAttempt(attempt)
       THEN /\ fetch_pc' = "returned"
            /\ fetch_result' = None
            /\ waits' = waits
       ELSE /\ fetch_pc' = "sleeping"
            /\ fetch_result' = fetch_result
            /\ waits' = Append(waits, [attempt |-> attempt,
                                       after |-> "transport",
                                       ticks |-> wait_time(attempt, jitter)])
    /\ UNCHANGED <<retry_attempts, attempt, user_agents>>
    /\ UNCHANGED <<orchVars, schedVars, mgrVars, dataVars>>

\* Lines 77 and 84: asyncio.sleep returns and the loop goes on.
sleep_returns ==
    /\ fetch_pc = "sleeping"
    /\ LoopContinues
    /\ UNCHANGED <<retry_attempts, responses, waits, user_agents, identities>>
    /\ UNCHANGED <<orchVars, schedVars, mgrVars, dataVars>>

NextFetchUrl ==
    \/ BaseScraper_init
    \/ fetch_url_call
    \/ \E body \in Bodies, ua \in IdentityChoices : response_200(body, ua)
    \/ \E jitter \in Jitter, ua \in IdentityChoices : response_429(jitter, ua)
    \/ \E ua \in IdentityChoices : response_other(ua)
    \/ \E jitter \in Jitter, ua \in RaisingIdentities :
           request_raises(jitter, ua)
    \/ sleep_returns

----------------------------------------------------------------------------
\* ComprehensiveScrapingManager

\* No call of run_comprehensive_scrape is under way.
MgrIdle ==
    /\ mgr_pc = "idle"
    /\ targets = <<>>
    /\ cat_idx = 1
    /\ results = <<>>
    /\ scraping_history = <<>>
    /\ faults = 0

\* schedule_scraping has not been called.
SchedIdle ==
    /\ has_logger = FALSE
    /\ interval_minutes = 60
    /\ sched_pc = "idle"
    /\ cycles = 0
    /\ slept = <<>>

\* run_comprehensive_scrape lines 36-41: the targets used when none are given.
DefaultTargets == <<"jobs", "financial", "odds", "teams">>

\* update_scraping_history line 102: the history keeps this many entries.
HistoryLimit == 100

\* schedule_scraping line 116: seconds slept after a failed run.
RecoverySeconds == 300

\* __init__ (lines 11-30) sets config, scrapers and scraping_history and no
\* `logger`; lines 47, 63, 110 and 115 read self.logger. Reading it raises
\* AttributeError unless the attribute was put on the instance from outside.
LoggerRaises == ~has_logger

\* The values a category is mapped to in results.
ListResult(data) == [kind |-> "list", data |-> data]
MappingResult(m) == [kind |-> "mapping", data |-> m]
ErrorResult == [kind |-> "error", error |-> ErrText]

\* results[category] = value (lines 57 and 64).
SetResult(r, category, value) ==
    [c \in DOMAIN r \cup {category} |-> IF c = category THEN value ELSE r[c]]

\* update_scraping_history lines 87-97: the summary of one run.
HistoryEntry(stamp, r) ==
    LET count(c) == IF r[c].kind = "list" THEN Len(r[c].data) ELSE 0
        RECURSIVE sum(_)
        sum(S) == IF S = {} THEN 0
                  ELSE LET c == CHOOSE x \in S : TRUE
                       IN count(c) + sum(S \ {c})
    IN [timestamp |-> stamp,
        results_summary |-> [c \in DOMAIN r |->
            IF r[c].kind = "list" THEN Len(r[c].data) ELSE "multiple"],
        total_items |-> sum(DOMAIN r)]

\* Mutant of update_scraping_history: the entry is appended and nothing is
\* dropped.
update_scraping_history_no_trim(h, entry) == Append(h, entry)

\* Mutant of update_scraping_history: the first HistoryLimit entries are kept
\* ([:100] for [-100:]).
update_scraping_history_keep_first(h, entry) ==
    LET a == Append(h, entry)
    IN IF Len(a) > HistoryLimit THEN SubSeq(a, 1, HistoryLimit) ELSE a

\* Mutant of update_scraping_history: a run that gathered no record leaves
\* no entry.
update_scraping_history_skip_empty(h, entry) ==
    IF entry.total_items = 0 THEN h ELSE Append(h, entry)

\* update_scraping_history lines 99-103: append, then keep the last
\* HistoryLimit entries.
update_scraping_history(h, entry) ==
    LET a == Append(h, entry)
    IN IF Len(a) > HistoryLimit
       THEN SubSeq(a, Len(a) - HistoryLimit + 1, Len(a))
       ELSE a

\* run_comprehensive_scrape lines 32-43, called with the given targets.
run_comprehensive_scrape_call(t) ==
    /\ mgr_pc' = "loop"
    /\ targets' = t
    /\ cat_idx' = 1
    /\ results' = <<>>
    /\ UNCHANGED <<scraping_history, faults>>

\* Lines 45-55: the loop reaches a category. One without a scraper is
\* skipped; otherwise line 47 logs (outside the try) and the scrape of the
\* category is awaited.
begin_category ==
    /\ mgr_pc = "loop"
    /\ cat_idx <= Len(targets)
    /\ IF targets[cat_idx] \notin ScraperCategories
       THEN mgr_pc' = "loop" /\ cat_idx' = cat_idx + 1
       ELSE IF LoggerRaises
            THEN mgr_pc' = "raised" /\ cat_idx' = cat_idx
            ELSE mgr_pc' = "scraping" /\ cat_idx' = cat_idx
    /\ UNCHANGED <<targets, results, scraping_history, faults>>
    /\ UNCHANGED <<orchVars, fetchVars, schedVars, dataVars>>

\* The category whose scrape is awaited.
Current == targets[cat_idx]

\* Mutant of category_failed: no handler, the exception leaves the run.
category_failed_aborts ==
    mgr_pc' = "raised" /\ results' = results /\ cat_idx' = cat_idx

\* Lines 62-64: the handler of the try; line 63 logs.
category_failed ==
    IF LoggerRaises
    THEN mgr_pc' = "raised" /\ results' = results /\ cat_idx' = cat_idx
    ELSE /\ mgr_pc' = "loop"
         /\ results' = SetResult(results, Current, ErrorResult)
         /\ cat_idx' = cat_idx + 1

\* Lines 57-60: the value is stored in results and save_to_database runs;
\* when it raises, the handler replaces the value.
category_done(value, save_ok) ==
    IF save_ok
    THEN /\ mgr_pc' = "loop"
         /\ results' = SetResult(results, Current, value)
         /\ cat_idx' = cat_idx + 1
    ELSE category_failed

\* The sizes of the batches the manager's scrapers return.
CategoryBatchSizes == {0, 1}

\* How one job scraper's coroutine can end (see _run_single_scraper).
PlatformOutcomes ==
    {o \in [failed : {"none", "initialize", "scrape", "save_data"},
            count : CategoryBatchSizes, raised : BOOLEAN] :
        /\ o.failed \in {"initialize", "scrape"} => o.count = 0
        /\ o.failed = "initialize" => ~o.raised}

\* The failures in one coroutine's outcome, and in a run of all of them.
OutcomeFaults(o) ==
    (IF o.failed = "none" THEN 0 ELSE 1) + (IF o.raised THEN 1 ELSE 0)
RunFaults(out) ==
    OutcomeFaults(out["linkedin"]) + OutcomeFaults(out["indeed"])
        + OutcomeFaults(out["careerjunction"])

Bit(b) == IF b THEN 0 ELSE 1

FinishedTask(n, o) ==
    [name |-> n, pc |-> "done", failed |-> o.failed,
     scraped |-> o.failed \in {"none", "save_data"},
     produced |-> Batch(n, o.count),
     ret |-> IF o.failed \in {"none", "save_data"}
             THEN ReturnAfterSave(Batch(n, o.count), o.failed = "none")
             ELSE <<>>,
     raised |-> o.raised]

\* Lines 50-53 with category 'jobs': scrape_all_jobs (job_scrapers.py lines
\* 232-234) runs run_scrapers() over the registered job scrapers and hands
\* back its mapping; out gives how each coroutine ended.
scrape_all_jobs_returns(out, save_ok) ==
    /\ mgr_pc = "scraping"
    /\ Current = "jobs"
    /\ faults + RunFaults(out) + Bit(save_ok) <= MaxFaults
    /\ faults' = faults + RunFaults(out) + Bit(save_ok)
    /\ session' = [n \in Scrapers |->
          IF n \notin Names \/ out[n].failed = "initialize" THEN session[n]
          ELSE IF out[n].raised THEN "open" ELSE "closed"]
    /\ category_done(
          MappingResult(Consolidate(Registered,
              [k \in DOMAIN Registered |->
                  TaskResult(FinishedTask(Registered[k], out[Registered[k]]))])),
          save_ok)
    /\ UNCHANGED <<targets, scraping_history>>
    /\ UNCHANGED <<max_concurrent, run_pc, scraper_names, tasks, completion,
                   consolidated>>
    /\ UNCHANGED <<fetchVars, schedVars, dataVars>>

\* How the run of the job scrapers can end, all coroutines together.
JobRunOutcomes == [Names -> PlatformOutcomes]

scrape_all_jobs_ends ==
    /\ mgr_pc = "scraping"
    /\ Current = "jobs"
    /\ \E out \in JobRunOutcomes, save_ok \in BOOLEAN :
          scrape_all_jobs_returns(out, save_ok)

\* Line 55: scrape(**params) of the category's scraper returns c records.
\* Neither initialize() nor close() is called around it.
category_scrape_returns(c, save_ok) ==
    /\ mgr_pc = "scraping"
    /\ Current \in DirectScrapers
    /\ faults + Bit(save_ok) <= MaxFaults
    /\ faults' = faults + Bit(save_ok)
    /\ category_done(ListResult(Batch(Current, c)), save_ok)
    /\ UNCHANGED <<targets, scraping_history>>
    /\ UNCHANGED <<orchVars, fetchVars, schedVars, dataVars>>

\* Line 55: scrape(**params) raises.
category_scrape_raises ==
    /\ mgr_pc = "scraping"
    /\ Current \in DirectScrapers
    /\ faults < MaxFaults
    /\ faults' = faults + 1
    /\ category_failed
    /\ UNCHANGED <<targets, scraping_history>>
    /\ UNCHANGED <<orchVars, fetchVars, schedVars, dataVars>>

\* Lines 66-69: the loop is over; the history is updated and results
\* returned.
run_comprehensive_scrape_return ==
    /\ mgr_pc = "loop"
    /\ cat_idx > Len(targets)
    /\ scraping_history' =
          update_scraping_history(scraping_history, HistoryEntry(cycles, results))
    /\ mgr_pc' = "returned"
    /\ UNCHANGED <<targets, cat_idx, results, faults>>
    /\ UNCHANGED <<orchVars, fetchVars, schedVars, dataVars>>

----------------------------------------------------------------------------
\* ComprehensiveScrapingManager.schedule_scraping

InitSched ==
    /\ has_logger \in BOOLEAN
    /\ interval_minutes \in {1, 60}
    /\ sched_pc = "idle"
    /\ cycles = 0
    /\ slept = <<>>

\* Line 105: schedule_scraping is called.
schedule_scraping_call ==
    /\ sched_pc = "idle"
    /\ sched_pc' = "loop"
    /\ UNCHANGED <<has_logger, interval_minutes, cycles, slept>>
    /\ UNCHANGED <<orchVars, fetchVars, mgrVars, dataVars>>

\* Lines 107-109: an iteration of `while True` calls
\* run_comprehensive_scrape() with no targets.
cycle_start ==
    /\ sched_pc = "loop"
    /\ cycles < MaxCycles
    /\ cycles' = cycles + 1
    /\ sched_pc' = "running"
    /\ run_comprehensive_scrape_call(DefaultTargets)
    /\ UNCHANGED <<has_logger, interval_minutes, slept>>
    /\ UNCHANGED <<orchVars, fetchVars, dataVars>>

\* Lines 114-116: the handler of the loop's try. Line 115 logs; an exception
\* raised there leaves schedule_scraping.
handle_run_failure ==
    IF LoggerRaises
    THEN sched_pc' = "raised" /\ slept' = slept
    ELSE sched_pc' = "sleeping" /\ slept' = Append(slept, RecoverySeconds)

\* Lines 109-112: the run returned; line 110 logs (inside the try) and the
\* loop sleeps interval_minutes * 60.
run_returned ==
    /\ sched_pc = "running"
    /\ mgr_pc = "returned"
    /\ mgr_pc' = "idle"
    /\ IF LoggerRaises
       THEN handle_run_failure
       ELSE sched_pc' = "sleeping" /\ slept' = Append(slept, interval_minutes * 60)
    /\ UNCHANGED <<has_logger, interval_minutes, cycles>>
    /\ UNCHANGED <<targets, cat_idx, results, scraping_history, faults>>
    /\ UNCHANGED <<orchVars, fetchVars, dataVars>>

\* Lines 109 and 114: the run raised.
run_raised ==
    /\ sched_pc = "running"
    /\ mgr_pc = "raised"
    /\ mgr_pc' = "idle"
    /\ handle_run_failure
    /\ UNCHANGED <<has_logger, interval_minutes, cycles>>
    /\ UNCHANGED <<targets, cat_idx, results, scraping_history, faults>>
    /\ UNCHANGED <<orchVars, fetchVars, dataVars>>

\* Lines 112 and 116: asyncio.sleep returns; the loop iterates.
sched_sleep_returns ==
    /\ sched_pc = "sleeping"
    /\ sched_pc' = "loop"
    /\ UNCHANGED <<has_logger, interval_minutes, cycles, slept>>
    /\ UNCHANGED <<orchVars, fetchVars, mgrVars, dataVars>>

NextScheduler ==
    \/ schedule_scraping_call
    \/ cycle_start
    \/ begin_category
    \/ scrape_all_jobs_ends
    \/ \E c \in CategoryBatchSizes, save_ok \in BOOLEAN :
          category_scrape_returns(c, save_ok)
    \/ category_scrape_raises
    \/ run_comprehensive_scrape_return
    \/ run_returned
    \/ run_raised
    \/ sched_sleep_returns

----------------------------------------------------------------------------
\* Specifications

Init == InitOrch /\ FetchIdle /\ SchedIdle /\ MgrIdle /\ DataIdle
Next == NextOrch
Spec == Init /\ [][Next]_vars

InitFetch == InitFetchUrl /\ OrchIdle /\ SchedIdle /\ MgrIdle /\ DataIdle
NextFetch == NextFetchUrl

\* The scheduler of scripts/start_scraping.py on a fresh manager.
InitSchedule == InitSched /\ MgrIdle /\ OrchIdle /\ FetchIdle /\ DataIdle
SpecSched == InitSchedule /\ [][NextScheduler]_vars
SpecFetch == InitFetch /\ [][NextFetch]_vars
\* The event loop resumes a coroutine whose request has been answered (or
\* has timed out, ClientTimeout line 44) or whose sleep has elapsed.
SpecFetchFair == SpecFetch /\ WF_vars(NextFetch)

----------------------------------------------------------------------------
\* Properties of run_scrapers (checked under Spec)

\* Every requested name has a scraper registered under it.
AllRegistered == \A k \in DOMAIN scraper_names : scraper_names[k] \in Names

\* The coroutine run_scrapers created for the scraper registered as n.
TaskOf(n) == CHOOSE i \in DOMAIN tasks : tasks[i].name = n

InFlightCount == Cardinality({i \in DOMAIN tasks : InFlight(tasks[i])})

\* The entry a source's own outcome calls for: an error when an exception
\* left its invocation, no records when a step of it failed, its records
\* otherwise.
OutcomeEntry(t) ==
    IF t.raised THEN [error |-> ErrText, data |-> <<>>]
    ELSE IF t.failed = "none" THEN [data |-> t.produced, error |-> None]
    ELSE [data |-> <<>>, error |-> None]

\* A run of registered sources has returned and the scrape of at least one
\* of them failed.
ReturnedWithFailedScrape ==
    /\ run_pc = "returned"
    /\ AllRegistered
    /\ \E i \in DOMAIN tasks : tasks[i].failed = "scrape"

\* Every step of the source's own invocation went through: initialize,
\* scrape, save_data and close.
Succeeded(t) == t.scraped /\ t.failed = "none" /\ ~t.raised

C2_FailureCaptured ==
    (run_pc = "returned" /\ AllRegistered)
    => \A i \in DOMAIN tasks :
          tasks[i].failed \in {"initialize", "scrape"}
          => /\ tasks[i].name \in DOMAIN consolidated
             /\ consolidated[tasks[i].name].error # None

\* C3 (as claimed): at no point of a run are more than max_concurrent
\* scrape invocations in flight.
C3_ConcurrencyCap == InFlightCount <= max_concurrent

\* C4: run_scrapers has returned only when every coroutine it launched is
\* terminal, whether the first to finish failed or succeeded.
C4_ReturnsAfterAllTerminal ==
    run_pc = "returned" => \A i \in DOMAIN tasks : Terminal(tasks[i])

\* Witness of C4: a returned run of three sources in which the first
\* coroutine to finish had failed and the second had returned records.
C4_Witness ==
    /\ run_pc = "returned"
    /\ Len(tasks) = 3
    /\ Len(completion) = 3
    /\ tasks[completion[1]].failed = "scrape"
    /\ tasks[completion[2]].failed = "none"
    /\ tasks[completion[2]].produced # <<>>

\* C6: for registered sources, whatever the order the coroutines finished
\* in, the returned mapping maps each requested name to the entry that the
\* outcome of the source registered under that name calls for.
C6_KeyedByName ==
    (run_pc = "returned" /\ AllRegistered)
    => consolidated =
          [n \in Range(scraper_names) |-> OutcomeEntry(tasks[TaskOf(n)])]

\* Witness of C6: three sources with three different entries, finished in
\* an order that is not the order of the request.
C6_Witness ==
    /\ run_pc = "returned"
    /\ AllRegistered
    /\ Len(tasks) = 3
    /\ completion = <<3, 1, 2>>
    /\ tasks[1].raised
    /\ tasks[2].failed = "scrape"
    /\ ~tasks[3].raised /\ tasks[3].failed = "none" /\ tasks[3].produced # <<>>

----------------------------------------------------------------------------
\* Properties of the sessions (checked under SpecSched)

\* C5 (as claimed): while a scrape started by run_scrapers or by
\* run_comprehensive_scrape is in flight the source's session is open
\* (initialize came first), and once a coroutine of run_scrapers is over
\* close() has been through (the session is open no more, unless close()
\* itself raised).
C5_SessionAroundScrape ==
    /\ \A i \in DOMAIN tasks :
          /\ InFlight(tasks[i]) => session[tasks[i].name] = "open"
          /\ (Terminal(tasks[i]) /\ ~tasks[i].raised)
                => session[tasks[i].name] # "open"
    /\ (mgr_pc = "scraping" /\ Current \in DirectScrapers)
          => session[Current] = "open"

----------------------------------------------------------------------------
\* Properties of fetch_url (checked under SpecFetch and SpecFetchFair)

No200 == \A k \in DOMAIN responses : responses[k].status # "200"

\* C7: fetch_url issues at most retry_attempts requests, returns None when
\* none of them answered 200, and terminates.
C7_BoundedAttempts ==
    /\ [](Len(responses) <= retry_attempts)
    /\ []((fetch_pc = "returned" /\ No200) => fetch_result = None)
    /\ <>(fetch_pc = "returned")

\* Witness of C7: every permitted attempt was used, one on each kind of
\* failure, and fetch_url returned None.
C7_Witness ==
    /\ fetch_pc = "returned"
    /\ retry_attempts = 3
    /\ Len(responses) = 3
    /\ responses[1].status = "429"
    /\ responses[2].status = "other"
    /\ responses[3].status = "transport"
    /\ fetch_result = None

\* C8: a 200 response is the last request fetch_url makes: it arrives on
\* attempt i as request i+1 and its body is what fetch_url returns.
C8_ReturnsFirst200 ==
    \A k \in DOMAIN responses :
        responses[k].status = "200"
        => /\ k = Len(responses)
           /\ attempt = k - 1
           /\ fetch_pc = "returned"
           /\ fetch_result = responses[k].body

\* Witness of C8: retry_attempts = 3 and 429, 429, 200: three requests and
\* the body of the third.
C8_Witness ==
    /\ retry_attempts = 3
    /\ Len(responses) = 3
    /\ responses[1].status = "429"
    /\ responses[2].status = "429"
    /\ responses[3].status = "200"
    /\ fetch_pc = "returned"
    /\ fetch_result = "<html>"

\* C9: the wait after a 429 on attempt a is 2^a seconds plus a jitter in
\* [0, 1), and the waits of successive 429 responses never decrease.
C9_BackoffMonotone ==
    \A k \in DOMAIN waits :
        waits[k].after = "429"
        => /\ waits[k].ticks >= (2 ^ waits[k].attempt) * TicksPerSecond
           /\ waits[k].ticks < (2 ^ waits[k].attempt + 1) * TicksPerSecond
           /\ \A j \in 1..(k - 1) :
                 waits[j].after = "429" => waits[j].ticks <= waits[k].ticks

\* Witness of C9: two successive 429 responses, the first wait with the
\* largest jitter and the second with none.
C9_Witness ==
    /\ Len(waits) = 2
    /\ waits[1].after = "429" /\ waits[2].after = "429"
    /\ waits[1].attempt = 0 /\ waits[2].attempt = 1
    /\ waits[1].ticks = 2 * TicksPerSecond - 1
    /\ waits[2].ticks = 2 * TicksPerSecond

----------------------------------------------------------------------------
\* Properties of schedule_scraping (checked under SpecSched)

\* C10 (as claimed): schedule_scraping never terminates: no exception ever
\* leaves it.
C10_SchedulerNeverExits == sched_pc # "raised"

\* C11 (as claimed): a cycle starts only from the loop head, once every
\* earlier cycle's run and wait are over; and when a cycle's run is over the
\* scheduler waits: interval_minutes * 60 seconds after a run that returned,
\* the fixed RecoverySeconds after a run that raised.
C11_WaitBetweenCycles ==
    [][/\ (sched_pc # "running" /\ sched_pc' = "running")
            => (sched_pc = "loop" /\ Len(slept) = cycles)
       /\ (sched_pc = "running" /\ sched_pc' # "running")
            => /\ sched_pc' = "sleeping"
               /\ slept' = Append(slept,
                     IF mgr_pc = "returned" THEN interval_minutes * 60
                     ELSE RecoverySeconds)]_vars

\* The store of the latest run failed. scrape_all_jobs never raises
\* (run_scrapers captures every failure), so an error value under 'jobs' can
\* only come from save_to_database (line 60) raising.
SinkFailedInRun ==
    /\ "jobs" \in DOMAIN results
    /\ results["jobs"] = ErrorResult

\* C12 (as claimed): the wait that follows a scheduled run in which the store
\* failed is the recovery cool-down.
C12_SinkFailureCoolsDown ==
    (sched_pc = "sleeping" /\ cycles > 0 /\ SinkFailedInRun)
    => slept[Len(slept)] = RecoverySeconds

----------------------------------------------------------------------------
\* ComprehensiveScrapingManager.update_scraping_history, run after run

\* Runs followed from each starting history.
MaxAppends == 3

\* The results mappings of the runs that are followed: nothing scraped, a
\* list under one category, a mapping under 'jobs' and an error.
EmptyResults == <<>>
HistoryResults ==
    {EmptyResults,
     SetResult(EmptyResults, "financial", ListResult(Batch("financial", 1))),
     SetResult(SetResult(EmptyResults, "jobs", MappingResult(<<>>)),
               "odds", ErrorResult)}

\* History h after the further runs lo..hi, each with empty results and the
\* k-th stamped k: update_scraping_history applied run after run. The runs
\* are split in halves and the first half is evaluated before the second is
\* entered, which keeps the evaluation shallow.
RECURSIVE HistoryFrom(_, _, _)
HistoryFrom(h, lo, hi) ==
    IF lo > hi THEN h
    ELSE IF lo = hi
         THEN update_scraping_history(h, HistoryEntry(lo, EmptyResults))
         ELSE LET mid == (lo + hi) \div 2
                  half == HistoryFrom(h, lo, mid)
              IN IF Len(half) >= 0 THEN HistoryFrom(half, mid + 1, hi)
                 ELSE half

\* The history after n runs on a fresh manager (line 30: []).
HistoryAfter(n) == HistoryFrom(<<>>, 1, n)

\* The numbers of earlier runs the histories start from: none, around the
\* limit, and well past it.
PriorRuns == {0, HistoryLimit - 1, HistoryLimit, HistoryLimit + 48}

\* A manager whose history holds what `cycles` completed runs left; no run
\* and no scheduler is under way.
InitHistory ==
    /\ cycles \in PriorRuns
    /\ scraping_history = HistoryAfter(cycles)
    /\ has_logger = FALSE
    /\ interval_minutes = 60
    /\ sched_pc = "idle"
    /\ slept = <<>>
    /\ mgr_pc = "idle"
    /\ targets = <<>>
    /\ cat_idx = 1
    /\ results = <<>>
    /\ faults = 0
    /\ OrchIdle /\ FetchIdle /\ DataIdle

\* Line 67: a run ends with update_scraping_history(results). The method is
\* synchronous (lines 85-103 hold no await), so no other task runs between
\* its append and its trim. Runs are stamped with their number.
update_scraping_history_call(r) ==
    /\ \E n \in PriorRuns : n <= cycles /\ cycles < n + MaxAppends
    /\ cycles' = cycles + 1
    /\ scraping_history' =
          update_scraping_history(scraping_history, HistoryEntry(cycles + 1, r))
    /\ UNCHANGED <<has_logger, interval_minutes, sched_pc, slept>>
    /\ UNCHANGED <<mgr_pc, targets, cat_idx, results, faults>>
    /\ UNCHANGED <<orchVars, fetchVars, dataVars>>

NextHistory == \E r \in HistoryResults : update_scraping_history_call(r)

SpecHistory == InitHistory /\ [][NextHistory]_vars

\* C13: the history never holds more than HistoryLimit (100) entries.
C13_HistoryBound == Len(scraping_history) <= HistoryLimit

\* Witness of C13: a full history after more than HistoryLimit runs, the
\* latest of them just appended.
C13_Witness ==
    /\ cycles > HistoryLimit + 1
    /\ Len(scraping_history) = HistoryLimit
    /\ scraping_history[HistoryLimit].timestamp = cycles
    /\ scraping_history[HistoryLimit].results_summary # EmptyResults

\* C14: after n runs the history holds exactly the summaries of the last
\* min(n, 100) runs, in the order they were appended.
C14_FifoEviction ==
    /\ Len(scraping_history) = Min(cycles, HistoryLimit)
    /\ \A k \in DOMAIN scraping_history :
          scraping_history[k].timestamp = cycles - Len(scraping_history) + k

\* Witness of C14: after 150 runs the history has length 100 and holds the
\* summaries 51 to 150.
C14_Witness ==
    /\ cycles = 150
    /\ Len(scraping_history) = 100
    /\ scraping_history[1].timestamp = 51
    /\ scraping_history[100].timestamp = 150
    /\ scraping_history[100].total_items = 1

----------------------------------------------------------------------------
\* BaseScraper.normalize_data

\* Times normalize_data is applied to a batch.
MaxPasses == 2

\* Characters str.strip() removes.
Whitespace == {" "}

\* str.strip(): leading and trailing whitespace removed.
RECURSIVE LStrip(_)
LStrip(chars) ==
    IF chars # <<>> /\ Head(chars) \in Whitespace THEN LStrip(Tail(chars))
    ELSE chars

RECURSIVE RStrip(_)
RStrip(chars) ==
    IF chars # <<>> /\ chars[Len(chars)] \in Whitespace
    THEN RStrip(SubSeq(chars, 1, Len(chars) - 1))
    ELSE chars

Strip(chars) == RStrip(LStrip(chars))

\* json.dumps of the items of a list or of a dict, joined by ", ".
RECURSIVE JoinDumped(_, _)
JoinDumped(items, is_dict) ==
    IF items = <<>> THEN <<>>
    ELSE (IF is_dict THEN <<"\"", Head(items), "\"", ":", " ", "1">>
          ELSE <<Head(items)>>)
         \o (IF Tail(items) = <<>> THEN <<>> ELSE <<",", " ">>)
         \o JoinDumped(Tail(items), is_dict)

\* json.dumps(value) for a list or a dict (line 137): a string.
JsonDumps(x) ==
    IF x.t = "dict" THEN <<"{">> \o JoinDumped(x.v, TRUE) \o <<"}">>
    ELSE <<"[">> \o JoinDumped(x.v, FALSE) \o <<"]">>

\* Line 129: `v not in [None, '', []]` drops the values equal to one of these.
IsEmptyValue(x) ==
    \/ x.t = "none"
    \/ x.t = "str" /\ x.v = <<>>
    \/ x.t = "list" /\ x.v = <<>>

\* Mutant of CleanValue: every value is kept as it is.
CleanValue_as_is(x) == x

\* Lines 132-137: a string is stripped, a list or dict is dumped to a string,
\* anything else is kept.
CleanValue(x) ==
    IF x.t = "str" THEN PyStr(Strip(x.v))
    ELSE IF x.t \in {"list", "dict"} THEN PyStr(JsonDumps(x))
    ELSE x

\* Lines 127-139 for one item: the empty values are dropped first, then the
\* values that are left are converted.
NormalizeItem(item) ==
    [k \in {f \in DOMAIN item : ~IsEmptyValue(item[f])} |-> CleanValue(item[k])]

\* normalize_data lines 124-140.
normalize_data(data) == [i \in DOMAIN data |-> NormalizeItem(data[i])]

\* The field values of the records at hand: None, the empty string, a
\* whitespace-only string, a padded string, a plain string, a number, the
\* empty list, a non-empty list and a dict.
FieldValues ==
    {PyNone, PyStr(<<>>), PyStr(<<" ", " ">>), PyStr(<<" ", "a", " ">>),
     PyStr(<<"a">>), PyNum("7"), PyList(<<>>), PyList(<<"1", "2">>),
     PyDict(<<"k">>)}

\* The fields of the records at hand.
FieldNames == {"title", "salary"}

\* Records with some of the fields, and the batches of them.
RawRecords == UNION {[F -> FieldValues] : F \in SUBSET FieldNames}
RawBatches == UNION {[1..l -> RawRecords] : l \in 0..MaxRecords}

InitNormalize ==
    /\ batch \in RawBatches
    /\ passes = 0
    /\ RankIdle /\ RestIdle /\ OrchIdle /\ FetchIdle /\ SchedIdle /\ MgrIdle

\* normalize_data is applied to the batch at hand (as the scrape methods do
\* on return, e.g. job_scrapers.py line 40).
normalize_data_call ==
    /\ passes < MaxPasses
    /\ batch' = normalize_data(batch)
    /\ passes' = passes + 1
    /\ UNCHANGED <<orchVars, fetchVars, schedVars, mgrVars, rankVars, restVars>>

NextNormalize == normalize_data_call

SpecNormalize == InitNormalize /\ [][NextNormalize]_vars

\* C15 (as claimed): normalize_data applied to a batch that normalize_data
\* returned gives back an identical batch.
C15_NormalizeIdempotent == [][passes >= 1 => batch' = batch]_vars

----------------------------------------------------------------------------
\* JobScrapingManager.rank_jobs

\* Records handed to one call of rank_jobs.
MaxJobs == 3

\* One day, in ticks of twelve hours.
TicksPerDay == 2

\* str.lower().
LowerChar(c) == IF c = "A" THEN "a" ELSE IF c = "B" THEN "b" ELSE c
Lower(chars) == [i \in DOMAIN chars |-> LowerChar(chars[i])]

\* `needle in hay` for strings: needle is a substring of hay.
Contains(hay, needle) ==
    \E i \in 1..(Len(hay) + 1) :
        /\ i + Len(needle) - 1 <= Len(hay)
        /\ SubSeq(hay, i, i + Len(needle) - 1) = needle

\* str.split(): the maximal runs of non-whitespace characters.
RECURSIVE SplitFrom(_, _)
SplitFrom(chars, word) ==
    IF chars = <<>>
    THEN (IF word = <<>> THEN <<>> ELSE <<word>>)
    ELSE IF Head(chars) \in Whitespace
         THEN (IF word = <<>> THEN <<>> ELSE <<word>>)
              \o SplitFrom(Tail(chars), <<>>)
         ELSE SplitFrom(Tail(chars), Append(word, Head(chars)))

Split(chars) == SplitFrom(chars, <<>>)

RECURSIVE SumSeq(_)
SumSeq(ns) == IF ns = <<>> THEN 0 ELSE Head(ns) + SumSeq(Tail(ns))

\* A record with field f set to v.
WithField(r, f, v) ==
    [k \in DOMAIN r \cup {f} |-> IF k = f THEN v ELSE r[k]]

\* job.get('summary', '').
SummaryOf(job) == IF "summary" \in DOMAIN job THEN job.summary ELSE <<>>

\* Lines 259-260: the whole query in the title.
TitleMatchScore(job, q) ==
    IF Contains(Lower(job.title), Lower(q)) THEN 10 ELSE 0

\* Lines 263-267: every word of the query, in the title and in the summary.
KeywordScore(job, q) ==
    LET words == Split(Lower(q))
    IN SumSeq([i \in DOMAIN words |->
          (IF Contains(Lower(job.title), words[i]) THEN 3 ELSE 0)
          + (IF Contains(Lower(SummaryOf(job)), words[i]) THEN 1 ELSE 0)])

\* A posted_date string: one datetime.fromisoformat parses, to the instant
\* `at`, or one it raises on.
IsoDate(at) == [iso |-> TRUE, at |-> at]
BadDate == [iso |-> FALSE, at |-> 0]

\* Line 273: timedelta.days, the whole days of the difference, rounded down.
DaysAgo(posted, n) == (n - posted.at) \div TicksPerDay

\* Lines 270-279: the recency bonus; an exception raised while the date is
\* parsed is swallowed.
RecencyBonus(job, n) ==
    IF "posted_date" \notin DOMAIN job THEN 0
    ELSE IF ~job.posted_date.iso THEN 0
    ELSE IF DaysAgo(job.posted_date, n) <= 1 THEN 5
    ELSE IF DaysAgo(job.posted_date, n) <= 7 THEN 2
    ELSE 0

\* Mutant of RelevanceScore: 1 for a query word in the title.
RelevanceScore_title_word_1(job, q, n) ==
    TitleMatchScore(job, q)
    + SumSeq([i \in DOMAIN Split(Lower(q)) |->
          (IF Contains(Lower(job.title), Split(Lower(q))[i]) THEN 1 ELSE 0)
          + (IF Contains(Lower(SummaryOf(job)), Split(Lower(q))[i])
             THEN 1 ELSE 0)])
    + RecencyBonus(job, n)

\* Lines 256-281: the score of one record.
RelevanceScore(job, q, n) ==
    TitleMatchScore(job, q) + KeywordScore(job, q) + RecencyBonus(job, n)

\* Lines 281-282: the record with its score.
Scored(job, q, n) == WithField(job, "relevance_score", RelevanceScore(job, q, n))

\* Mutant of InsertByScore: x goes before the records of equal score.
InsertByScore_before_equal(sorted, x) ==
    LET before == {i \in DOMAIN sorted :
                      sorted[i].relevance_score > x.relevance_score}
    IN SubSeq(sorted, 1, Cardinality(before)) \o <<x>>
       \o SubSeq(sorted, Cardinality(before) + 1, Len(sorted))

\* sorted(..., reverse=True) is stable: x, met after the records of `sorted`,
\* goes after those whose score is not below its own.
InsertByScore(sorted, x) ==
    LET before == {i \in DOMAIN sorted :
                      sorted[i].relevance_score >= x.relevance_score}
    IN SubSeq(sorted, 1, Cardinality(before)) \o <<x>>
       \o SubSeq(sorted, Cardinality(before) + 1, Len(sorted))

\* Line 285: sorted(scored_jobs, key=relevance_score, reverse=True).
RECURSIVE SortedByScore(_, _)
SortedByScore(sorted, rest) ==
    IF rest = <<>> THEN sorted
    ELSE SortedByScore(InsertByScore(sorted, Head(rest)), Tail(rest))

\* rank_jobs lines 251-285.
rank_jobs(js, q, n) ==
    SortedByScore(<<>>, [i \in DOMAIN js |-> Scored(js[i], q, n)])

\* datetime.now() at the call: eight days after tick 0.
NowTick == 8 * TicksPerDay

\* The ages of the parseable posted dates: just under two days and just
\* under eight days.
PostedAges == {2 * TicksPerDay - 1, 8 * TicksPerDay - 1}

\* The queries: two words, one word in upper case, one word twice.
Queries == {<<"a", " ", "b">>, <<"B">>, <<"b", " ", "b">>}

\* The records rank_jobs is handed: a title, with or without a summary, with
\* or without a posted_date.
JobTitles == {<<"A", " ", "b">>, <<"b", "a">>}
JobSummaries == {<<"B">>}
PostedDates == {BadDate} \cup {IsoDate(NowTick - a) : a \in PostedAges}
JobPool ==
    LET titled == {[title |-> t] : t \in JobTitles}
        summarised == titled \cup
            {WithField(j, "summary", x) : j \in titled, x \in JobSummaries}
    IN summarised \cup
          {WithField(j, "posted_date", d) : j \in summarised, d \in PostedDates}

\* The lists of records, each record with its position as url.
JobLists ==
    {[i \in DOMAIN js |-> WithField(js[i], "url", i)] :
        js \in UNION {[1..l -> JobPool] : l \in 0..MaxJobs}}

InitRankJobs ==
    /\ query \in Queries
    /\ now = NowTick
    /\ jobs \in JobLists
    /\ ranked = <<>>
    /\ rank_pc = "idle"
    /\ NormIdle /\ RestIdle /\ OrchIdle /\ FetchIdle /\ SchedIdle /\ MgrIdle

\* rank_jobs(jobs, query) is called and returns.
rank_jobs_call ==
    /\ rank_pc = "idle"
    /\ ranked' = rank_jobs(jobs, query, now)
    /\ rank_pc' = "returned"
    /\ UNCHANGED <<query, now, jobs>>
    /\ UNCHANGED <<orchVars, fetchVars, schedVars, mgrVars, normVars, restVars>>

NextRank == rank_jobs_call

SpecRank == InitRankJobs /\ [][NextRank]_vars

\* A ranked record without the score rank_jobs added.
Unscored(r) == [k \in DOMAIN r \ {"relevance_score"} |-> r[k]]

ClaimedTextScore(r, q) ==
    LET words == Split(Lower(q))
    IN (IF Contains(Lower(r.title), Lower(q)) THEN 10 ELSE 0)
       + 3 * Cardinality({i \in DOMAIN words : Contains(Lower(r.title), words[i])})
       + (IF "summary" \in DOMAIN r
          THEN Cardinality({i \in DOMAIN words :
                               Contains(Lower(r.summary), words[i])})
          ELSE 0)

\* C17: the score of a ranked record is the claimed text score plus a recency
\* bonus, which is 0 for a record without posted_date.
C17_TextScore ==
    rank_pc = "returned"
    => \A k \in DOMAIN ranked :
          /\ ranked[k].relevance_score - ClaimedTextScore(ranked[k], query)
                \in {0, 2, 5}
          /\ "posted_date" \notin DOMAIN ranked[k]
                => ranked[k].relevance_score = ClaimedTextScore(ranked[k], query)

\* Witness of C17: for the query "a b", a record titled "A b" with a summary
\* scored 10 + 3 + 3 + 1, one titled "ba" without summary 3 + 3.
C17_Witness ==
    /\ rank_pc = "returned"
    /\ query = <<"a", " ", "b">>
    /\ \E k, l \in DOMAIN ranked :
          /\ ranked[k].title = <<"A", " ", "b">>
          /\ "summary" \in DOMAIN ranked[k]
          /\ "posted_date" \notin DOMAIN ranked[k]
          /\ ranked[k].relevance_score = 17
          /\ ranked[l].title = <<"b", "a">>
          /\ DOMAIN ranked[l] = {"title", "url", "relevance_score"}
          /\ ranked[l].relevance_score = 6

\* The recency bonus as claimed: 5 within one day of now, 2 when older than
\* that but within seven days, 0 otherwise and for a date that is absent or
\* cannot be parsed.
ClaimedRecencyBonus(r, n) ==
    IF "posted_date" \notin DOMAIN r THEN 0
    ELSE IF ~r.posted_date.iso THEN 0
    ELSE LET age == n - r.posted_date.at
         IN IF -TicksPerDay <= age /\ age <= TicksPerDay THEN 5
            ELSE IF TicksPerDay < age /\ age <= 7 * TicksPerDay THEN 2
            ELSE 0

\* C18 (as claimed): the score of a ranked record is its text score plus the
\* claimed recency bonus.
C18_RecencyBonus ==
    rank_pc = "returned"
    => \A k \in DOMAIN ranked :
          ranked[k].relevance_score =
              TitleMatchScore(ranked[k], query) + KeywordScore(ranked[k], query)
              + ClaimedRecencyBonus(ranked[k], now)

----------------------------------------------------------------------------
\* The records the parsers of the scrapers build

\* The parsers that build records, with the value each puts under 'source'
\* ("" for a parser whose record literal has no 'source' key).
ParserSource ==
    [linkedin |-> "linkedin", indeed |-> "indeed",
     careerjunction |-> "careerjunction", jse |-> "jse",
     crypto |-> "coingecko", forex |-> "exchangerate-api",
     property24 |-> "property24", football |-> "football-data-api",
     weather |-> "openweathermap", odds |-> "", teams |-> "", web |-> ""]

Parsers == DOMAIN ParserSource

\* What the text of an element, stripped, can be: empty or not.
ElementTexts == {PyStr(<<>>), PyStr(<<"a">>)}

\* What an optional field can hold: '' or None when the element is missing,
\* a text, a number.
OptionalValues == {PyStr(<<>>), PyNone, PyStr(<<"a">>), PyNum("7")}

\* The record a parser builds: its main text field, one optional field,
\* 'scraped_at' (datetime.now().isoformat()), 'source' where the literal has
\* it, and 'source_url' for scrape_website_data.
ParsedRecord(parser, text, optional) ==
    LET base == [name |-> text, extra |-> optional,
                 scraped_at |-> PyStr(<<"t">>)]
    IN IF ParserSource[parser] # ""
       THEN WithField(base, "source", PyStr(<<ParserSource[parser]>>))
       ELSE IF parser = "web"
            THEN WithField(base, "source_url", PyStr(<<"u">>))
            ELSE base

\* A parser builds the records of one page.
parse_page(parser, c, text, optional) ==
    /\ batch = <<>>
    /\ passes = 0
    /\ batch' = [i \in 1..c |-> ParsedRecord(parser, text, optional)]
    /\ UNCHANGED passes
    /\ UNCHANGED <<orchVars, fetchVars, schedVars, mgrVars, rankVars, restVars>>

NextRecords ==
    \/ \E parser \in Parsers, c \in 1..MaxRecords, text \in ElementTexts,
          optional \in OptionalValues : parse_page(parser, c, text, optional)
    \/ normalize_data_call

\* No page has been parsed yet.
InitRecords ==
    DataIdle /\ OrchIdle /\ FetchIdle /\ SchedIdle /\ MgrIdle

SpecRecords == InitRecords /\ [][NextRecords]_vars

\* C19 (as claimed): every record at hand, before and after normalization,
\* has a 'source' and a 'scraped_at' field that are not None.
C19_SourceAndScrapedAt ==
    \A i \in DOMAIN batch :
        /\ "source" \in DOMAIN batch[i] /\ batch[i].source # PyNone
        /\ "scraped_at" \in DOMAIN batch[i] /\ batch[i].scraped_at # PyNone

----------------------------------------------------------------------------
\* JobScrapingManager.search_jobs

\* The records a job scraper returns: c records with the given title, tagged
\* with their source.
JobBatch(n, c, title) ==
    [i \in 1..c |-> [title |-> title, source |-> n, url |-> i]]

\* A coroutine of _run_single_scraper that ended as o says, its scrape
\* having produced job records.
FinishedJobTask(n, o, title) ==
    [FinishedTask(n, o) EXCEPT
        !.produced = JobBatch(n, o.count, title),
        !.ret = IF o.failed \in {"none", "save_data"}
                THEN ReturnAfterSave(JobBatch(n, o.count, title),
                                     o.failed = "none")
                ELSE <<>>]

\* search_jobs lines 243-246: the data of the entries, in the order of the
\* mapping (that of names); an entry without data adds nothing.
RECURSIVE ExtendAll(_, _)
ExtendAll(m, names) ==
    IF names = <<>> THEN <<>>
    ELSE (IF Head(names) \in DOMAIN m THEN m[Head(names)].data ELSE <<>>)
         \o ExtendAll(m, Tail(names))

\* The orders in which the coroutines of the registered scrapers can finish.
CompletionOrders ==
    {o \in [DOMAIN Registered -> DOMAIN Registered] :
        \A i, j \in DOMAIN o : i # j => o[i] # o[j]}

InitSearch ==
    /\ query \in Queries
    /\ now = NowTick
    /\ jobs = <<>>
    /\ ranked = <<>>
    /\ rank_pc = "idle"
    /\ NormIdle /\ RestIdle /\ OrchIdle /\ FetchIdle /\ SchedIdle /\ MgrIdle

\* search_jobs lines 236-249: scrape_all_jobs runs run_scrapers() over the
\* registered scrapers (the keywords of line 238 are not passed on, lines
\* 232-234); the data of its mapping is gathered and ranked. out gives how
\* each coroutine ended, titles the title of each scraper's records, order
\* the order the coroutines finished in.
search_jobs_returns(out, titles, order) ==
    /\ rank_pc = "idle"
    /\ run_pc = "idle"
    /\ scraper_names' = Registered
    /\ tasks' = [k \in DOMAIN Registered |->
                    FinishedJobTask(Registered[k], out[Registered[k]],
                                    titles[Registered[k]])]
    /\ completion' = order
    /\ session' = [n \in Scrapers |->
          IF n \notin Names \/ out[n].failed = "initialize" THEN session[n]
          ELSE IF out[n].raised THEN "open" ELSE "closed"]
    /\ consolidated' =
          Consolidate(Registered, GatherResults')
    /\ run_pc' = "returned"
    /\ jobs' = ExtendAll(consolidated', Registered)
    /\ ranked' = rank_jobs(jobs', query, now)
    /\ rank_pc' = "returned"
    /\ UNCHANGED <<max_concurrent, query, now>>
    /\ UNCHANGED <<fetchVars, schedVars, mgrVars, normVars, restVars>>

search_jobs_ends ==
    /\ rank_pc = "idle"
    /\ \E out \in JobRunOutcomes, titles \in [Names -> JobTitles],
          order \in CompletionOrders : search_jobs_returns(out, titles, order)

NextSearch == search_jobs_ends

SpecSearch == InitSearch /\ [][NextSearch]_vars

\* The title of the record holds the whole query, whatever the case.
TitleHasQuery(r) == Contains(Lower(r.title), Lower(query))

\* The records of the working sources come back ranked, a record whose title
\* holds the query first.
RankedTitleMatchFirst ==
    /\ Len(ranked) = Len(jobs)
    /\ \A j \in DOMAIN tasks :
          Succeeded(tasks[j])
          => \A i \in DOMAIN tasks[j].produced :
                \E k \in DOMAIN ranked : Unscored(ranked[k]) = tasks[j].produced[i]
    /\ (\E k \in DOMAIN ranked : TitleHasQuery(ranked[k]))
          => TitleHasQuery(ranked[1])

\* C20 (as claimed): when search_jobs has returned from a run in which the
\* scrape of a source failed, the run's mapping has an error entry for every
\* failing source and an entry with error None and the source's records for
\* every working one, and the records of the working sources come back
\* ranked, a record whose title holds the query first.
C20_SearchWithFailingSource ==
    (rank_pc = "returned" /\ run_pc = "returned"
        /\ \E i \in DOMAIN tasks : tasks[i].failed = "scrape")
    => /\ \A i \in DOMAIN tasks :
             tasks[i].failed = "scrape"
             => consolidated[tasks[i].name].error # None
       /\ \A j \in DOMAIN tasks :
             Succeeded(tasks[j])
             => /\ consolidated[tasks[j].name].error = None
                /\ consolidated[tasks[j].name].data = tasks[j].produced
       /\ RankedTitleMatchFirst

----------------------------------------------------------------------------
\* Properties of the identity pool and of the waits of fetch_url (checked
\* under SpecFetch)

\* C21: constructing a source with a configuration whose user_agents is
\* unset or empty leaves the built-in default, of at least 3 entries, in it;
\* once a source is constructed the pool is a non-empty list, and every
\* attempt of fetch_url found an identity to pick.
C21_DefaultIdentityPool ==
    /\ [][(fetch_pc = "config" /\ fetch_pc' # "config"
              /\ (user_agents.t = "none" \/ user_agents.v = <<>>))
          => (user_agents' = DefaultUserAgents /\ Len(user_agents'.v) >= 3)]_vars
    /\ [](fetch_pc # "config"
             => (user_agents.t = "list" /\ user_agents.v # <<>>))
    /\ [](\A k \in DOMAIN identities : identities[k] # None)

\* Witness of C21: the configuration had no pool of its own and an attempt of
\* fetch_url picked the third built-in identity.
C21_Witness ==
    /\ user_agents = DefaultUserAgents
    /\ Len(identities) >= 1
    /\ identities[1] = "Chrome/91 Linux"

\* C23: an attempt that meets a status other than 200 and 429 is followed at
\* once, without a wait, by the next attempt, or by the return of None when
\* it was the last attempt retry_attempts permits.
C23_OtherStatusNoWait ==
    [][(Len(responses') = Len(responses) + 1
           /\ responses'[Len(responses')].status = "other")
       => /\ waits' = waits
          /\ IF attempt + 1 < retry_attempts
             THEN attempt' = attempt + 1 /\ fetch_pc' = "attempting"
             ELSE fetch_pc' = "returned" /\ fetch_result' = None]_vars

\* Witness of C23: the first attempt met another status and a second request
\* was made with no wait in between.
C23_Witness ==
    /\ Len(responses) = 2
    /\ responses[1].status = "other"
    /\ attempt = 1
    /\ waits = <<>>

\* C24: an attempt that raises returns None at once, without a wait, when it
\* is the final attempt; otherwise fetch_url sleeps 2^attempt seconds plus a
\* jitter in [0, 1) and then makes the next attempt.
C24_TransportFailure ==
    [][/\ (Len(responses') = Len(responses) + 1
              /\ responses'[Len(responses')].status = "transport")
          => IF attempt = retry_attempts - 1
             THEN fetch_pc' = "returned" /\ fetch_result' = None
                  /\ waits' = waits
             ELSE /\ fetch_pc' = "sleeping"
                  /\ Len(waits') = Len(waits) + 1
                  /\ waits'[Len(waits')].ticks >= (2 ^ attempt) * TicksPerSecond
                  /\ waits'[Len(waits')].ticks
                         < (2 ^ attempt + 1) * TicksPerSecond
       /\ (fetch_pc = "sleeping" /\ fetch_pc' # "sleeping"
              /\ responses[Len(responses)].status = "transport")
          => /\ fetch_pc' = "attempting"
             /\ attempt' = attempt + 1
             /\ responses' = responses]_vars

\* Witness of C24: with retry_attempts = 2 both attempts raised: one wait,
\* after the first, and None returned.
C24_Witness ==
    /\ retry_attempts = 2
    /\ Len(responses) = 2
    /\ responses[1].status = "transport"
    /\ responses[2].status = "transport"
    /\ Len(waits) = 1
    /\ waits[1].attempt = 0
    /\ fetch_pc = "returned"
    /\ fetch_result = None

\* C25 (as claimed): every wait fetch_url performs follows an attempt that
\* is not the last one retry_attempts permits, so each wait is followed by
\* another attempt.
C25_NoWaitAfterLastAttempt ==
    \A k \in DOMAIN waits : waits[k].attempt + 1 < retry_attempts

\* C26: every attempt of fetch_url has picked an identity of its own, each
\* a member of the configured pool.
C26_IdentityPerAttempt ==
    /\ Len(identities) = Len(responses)
    /\ \A k \in DOMAIN identities : identities[k] \in Range(user_agents.v)

\* Witness of C26: two attempts of one call went out with different
\* identities of a pool the caller configured.
C26_Witness ==
    /\ user_agents = PyList(<<"agent-1", "agent-2">>)
    /\ Len(identities) = 2
    /\ identities[1] = "agent-2"
    /\ identities[2] = "agent-1"

----------------------------------------------------------------------------
\* Properties of the result mappings (checked under SpecSched)

\* C22 (as claimed): every entry of the mapping run_scrapers returns and of
\* the mapping run_comprehensive_scrape builds has a records field and an
\* error field; the error is None exactly when the invocation succeeded, and
\* an entry with an error has no records.
C22_EntryFields ==
    /\ (run_pc = "returned" /\ AllRegistered)
       => \A n \in DOMAIN consolidated :
             /\ DOMAIN consolidated[n] = {"data", "error"}
             /\ (consolidated[n].error = None) <=> Succeeded(tasks[TaskOf(n)])
             /\ (consolidated[n].error # None) => consolidated[n].data = <<>>
    /\ \A c \in DOMAIN results :
          /\ {"data", "error"} \subseteq DOMAIN results[c]
          /\ (results[c].error # None) => results[c].data = <<>>

----------------------------------------------------------------------------
\* scrape of one source: the loops over its URLs

\* The loops of a scrape are followed over at most MaxUrls URLs.
MaxUrls == 3

\* The source classes with a scrape over several URLs.
ScraperVariants ==
    {"linkedin", "indeed", "careerjunction", "odds", "teams", "real_estate",
     "financial"}

\* How the URLs of a call are requested, in the order the loops visit them.
\* LinkedIn (job_scrapers.py lines 20-32), Indeed (99-109), CareerJunction
\* (170-174), odds (odds_scrapers.py lines 23-28 and 45) and teams (130-134
\* and 143) call fetch_url once per keyword, page, bookmaker or league.
\* FinancialDataScraper (data_scrapers.py lines 24-33) calls fetch_url for
\* 'jse' (line 41) and self.session.get for 'crypto' and 'forex' (lines 85
\* and 116); the plans are the default data_types and the ['crypto', 'forex']
\* of scraping_manager.py line 38. RealEstateScraper (lines 154-160) calls
\* fetch_url for property24 and then scrape_private_property, a method the
\* class does not define.
UrlPlans(v) ==
    IF v = "financial"
    THEN {<<"fetch_url", "session", "session">>, <<"session", "session">>}
    ELSE IF v = "real_estate" THEN {<<"fetch_url", "undefined">>}
    ELSE {[k \in 1..n |-> "fetch_url"] : n \in 1..MaxUrls}

\* request_delay: none, and the 1.0 s of scraping_manager.py line 14.
RequestDelays == {0, TicksPerSecond}

\* A source has been constructed; scrape is not called yet.
InitScrape ==
    /\ variant \in ScraperVariants
    /\ request_delay \in RequestDelays
    /\ plan \in UrlPlans(variant)
    /\ scrape_pc = "idle"
    /\ fetched = <<>>
    /\ all_items = <<>>
    /\ events = <<>>
    /\ scrape_result = None
    /\ StatsIdle /\ CallIdle /\ NormIdle /\ RankIdle
    /\ OrchIdle /\ FetchIdle /\ SchedIdle /\ MgrIdle

\* The records a parser makes of the page of the k-th URL.
ParsedItems(k, n) ==
    [i \in 1..n |-> [url |-> PyNum(k), item |-> PyNum(i),
                     title |-> PyStr(<<"t", " ">>)]]

\* What fetch_url hands back for a URL: None, an empty body, or a page
\* of which the parser makes count records.
FetchOutcomes ==
    {[outcome |-> "none", count |-> 0], [outcome |-> "empty", count |-> 0]}
    \cup {[outcome |-> "html", count |-> n] : n \in 0..MaxRecords}

\* What self.session.get meets: a 200 with a JSON document of count
\* entries, a 200 with an empty body, or another status.
SessionOutcomes ==
    {[outcome |-> "status", count |-> 0], [outcome |-> "empty", count |-> 0]}
    \cup {[outcome |-> "json", count |-> n] : n \in 0..MaxRecords}

\* The request_delay sleeps of the loops: LinkedIn sleeps inside `if html:`
\* (job_scrapers.py lines 33-38), the odds scraper after every bookmaker
\* (odds_scrapers.py line 30); no other scrape sleeps.
SleepsAfter(v, truthy) == v = "odds" \/ (v = "linkedin" /\ truthy)

\* The return of scrape: normalize_data(all_...) everywhere but in
\* FinancialDataScraper.scrape, which returns all_data (line 35).
Returned(v, items) == IF v = "financial" THEN items ELSE normalize_data(items)

\* The loops go on to the next URL, or are exhausted and scrape returns.
Advance(done, items) ==
    IF done < Len(plan)
    THEN scrape_pc' = "fetching" /\ scrape_result' = scrape_result
    ELSE scrape_pc' = "returned" /\ scrape_result' = Returned(variant, items)

\* scrape is called.
scrape_call ==
    /\ scrape_pc = "idle"
    /\ scrape_pc' = "fetching"
    /\ UNCHANGED <<variant, request_delay, plan, fetched, all_items, events,
                   scrape_result>>
    /\ UNCHANGED <<orchVars, fetchVars, schedVars, mgrVars, normVars,
                   rankVars, statsVars, callVars>>

\* `html = await self.fetch_url(url)` and `if html:` (e.g. job_scrapers.py
\* lines 31-38): a truthy page is parsed and its records are added; None
\* and '' are passed over.
fetch_url_returned(o) ==
    /\ scrape_pc = "fetching"
    /\ plan[Len(fetched) + 1] = "fetch_url"
    /\ fetched' = Append(fetched, o)
    /\ events' = Append(events, [kind |-> "request", ticks |-> 0])
    /\ all_items' = all_items \o ParsedItems(Len(fetched) + 1, o.count)
    /\ IF SleepsAfter(variant, o.outcome = "html")
       THEN scrape_pc' = "delay" /\ scrape_result' = scrape_result
       ELSE Advance(Len(fetched) + 1, all_items')
    /\ UNCHANGED <<variant, request_delay, plan>>
    /\ UNCHANGED <<orchVars, fetchVars, schedVars, mgrVars, normVars,
                   rankVars, statsVars, callVars>>

\* `await asyncio.sleep(self.config.request_delay)` returns.
request_delay_elapsed ==
    /\ scrape_pc = "delay"
    /\ events' = Append(events, [kind |-> "sleep", ticks |-> request_delay])
    /\ Advance(Len(fetched), all_items)
    /\ UNCHANGED <<variant, request_delay, plan, fetched, all_items>>
    /\ UNCHANGED <<orchVars, fetchVars, schedVars, mgrVars, normVars,
                   rankVars, statsVars, callVars>>

\* data_scrapers.py lines 85-90 and 116-121: a 200 is parsed as JSON and its
\* entries become records; another status gives []. response.json() of an
\* empty body yields None (or raises), and the parser raises on None (line
\* 96: `for coin in data`, line 126: data['base']): scrape raises.
session_get_returned(o) ==
    /\ scrape_pc = "fetching"
    /\ plan[Len(fetched) + 1] = "session"
    /\ fetched' = Append(fetched, o)
    /\ events' = Append(events, [kind |-> "request", ticks |-> 0])
    /\ IF o.outcome = "empty"
       THEN /\ scrape_pc' = "raised"
            /\ all_items' = all_items
            /\ scrape_result' = scrape_result
       ELSE /\ all_items' = all_items \o ParsedItems(Len(fetched) + 1, o.count)
            /\ Advance(Len(fetched) + 1, all_items')
    /\ UNCHANGED <<variant, request_delay, plan>>
    /\ UNCHANGED <<orchVars, fetchVars, schedVars, mgrVars, normVars,
                   rankVars, statsVars, callVars>>

\* data_scrapers.py lines 85 and 116: self.session.get raises (no try
\* around it) and the exception leaves scrape.
session_get_raises ==
    /\ scrape_pc = "fetching"
    /\ plan[Len(fetched) + 1] = "session"
    /\ fetched' = Append(fetched, [outcome |-> "transport", count |-> 0])
    /\ events' = Append(events, [kind |-> "request", ticks |-> 0])
    /\ scrape_pc' = "raised"
    /\ UNCHANGED <<variant, request_delay, plan, all_items, scrape_result>>
    /\ UNCHANGED <<orchVars, fetchVars, schedVars, mgrVars, normVars,
                   rankVars, statsVars, callVars>>

\* data_scrapers.py line 160: self.scrape_private_property is not defined;
\* the attribute lookup raises and the exception leaves scrape.
scrape_private_property_raises ==
    /\ scrape_pc = "fetching"
    /\ plan[Len(fetched) + 1] = "undefined"
    /\ fetched' = Append(fetched, [outcome |-> "undefined", count |-> 0])
    /\ scrape_pc' = "raised"
    /\ UNCHANGED <<variant, request_delay, plan, all_items, events,
                   scrape_result>>
    /\ UNCHANGED <<orchVars, fetchVars, schedVars, mgrVars, normVars,
                   rankVars, statsVars, callVars>>

NextScrape ==
    \/ scrape_call
    \/ \E o \in FetchOutcomes : fetch_url_returned(o)
    \/ request_delay_elapsed
    \/ \E o \in SessionOutcomes : session_get_returned(o)
    \/ session_get_raises
    \/ scrape_private_property_raises

SpecScrape == InitScrape /\ [][NextScrape]_vars

\* The URL of every record of the pages that came back, in the order the
\* URLs were visited.
RECURSIVE UrlsWithRecords(_, _)
UrlsWithRecords(f, k) ==
    IF k > Len(f) THEN <<>>
    ELSE [i \in 1..(IF f[k].outcome \in {"html", "json"} THEN f[k].count
                    ELSE 0) |-> k]
         \o UrlsWithRecords(f, k + 1)

\* Every URL visited either came back with a page or document, or with a
\* null or empty body.
OnlyBodiesOrNone ==
    \A k \in DOMAIN fetched :
        fetched[k].outcome \in {"html", "json", "none", "empty", "status"}

\* C27 (as claimed): a scrape all of whose URLs came back, with a page or
\* with a null or empty body, does not fail: it visits every URL of its plan
\* and returns the records of the pages that came back, in the order of the
\* URLs.
C27_BadUrlSkipped ==
    (scrape_pc \in {"returned", "raised"} /\ OnlyBodiesOrNone)
    => /\ scrape_pc = "returned"
       /\ Len(fetched) = Len(plan)
       /\ [j \in DOMAIN scrape_result |-> scrape_result[j].url.v[1]]
             = UrlsWithRecords(fetched, 1)

\* C28 (as claimed): a request of a scrape that is followed by another one
\* is followed first by a sleep of at least request_delay, whatever the
\* request met.
C28_RequestDelay ==
    \A k \in 1..(Len(events) - 1) :
        events[k].kind = "request"
        => IF events[k + 1].kind = "sleep"
           THEN events[k + 1].ticks >= request_delay
           ELSE request_delay = 0

----------------------------------------------------------------------------
\* Properties of the output of normalize_data (checked under SpecNormalize)

\* The string out is the string in without its leading and trailing
\* whitespace.
IsTrimOf(out, in) ==
    \E i, j \in 0..Len(in) :
        /\ i + j <= Len(in)
        /\ out = SubSeq(in, i + 1, Len(in) - j)
        /\ \A k \in 1..i : in[k] \in Whitespace
        /\ \A k \in (Len(in) - j + 1)..Len(in) : in[k] \in Whitespace
        /\ out = <<>> \/ (out[1] \notin Whitespace
                             /\ out[Len(out)] \notin Whitespace)

----------------------------------------------------------------------------
\* ComprehensiveScrapingManager.get_scraping_stats beside the runs

\* Mutant of LatestOf: the oldest summary of the history.
LatestOf_oldest(h) == h[1]

\* Line 123: self.scraping_history[-1].
LatestOf(h) == h[Len(h)]

\* Line 121: `return {}`.
EmptyStats == [k \in {} |-> None]

\* Lines 125-131: the mapping made of `latest` and of the history's length.
StatsOf(l, h) ==
    [last_scraping |-> l.timestamp,
     total_categories |-> Cardinality(DOMAIN l.results_summary),
     total_items |-> l.total_items,
     history_entries |-> Len(h),
     categories |-> DOMAIN l.results_summary]

\* Lines 118-121: get_scraping_stats is called by a reader (the stats route,
\* scraping_routes.py line 99) and tests the history; on an empty one it
\* returns {}. The reads of the method are followed one by one, so that a
\* run may end between any two of them.
get_scraping_stats_call ==
    /\ stats_pc = "idle"
    /\ IF Len(scraping_history) = 0
       THEN stats_pc' = "returned" /\ stats' = EmptyStats
       ELSE stats_pc' = "checked" /\ stats' = stats
    /\ UNCHANGED latest
    /\ UNCHANGED <<orchVars, fetchVars, schedVars, mgrVars, normVars,
                   rankVars, scrapeVars, callVars>>

\* Line 123: latest = self.scraping_history[-1].
read_latest ==
    /\ stats_pc = "checked"
    /\ latest' = LatestOf(scraping_history)
    /\ stats_pc' = "read"
    /\ UNCHANGED stats
    /\ UNCHANGED <<orchVars, fetchVars, schedVars, mgrVars, normVars,
                   rankVars, scrapeVars, callVars>>

\* Lines 125-131: the mapping is built and returned.
get_scraping_stats_return ==
    /\ stats_pc = "read"
    /\ stats' = StatsOf(latest, scraping_history)
    /\ stats_pc' = "returned"
    /\ UNCHANGED latest
    /\ UNCHANGED <<orchVars, fetchVars, schedVars, mgrVars, normVars,
                   rankVars, scrapeVars, callVars>>

NextStats ==
    \/ \E r \in HistoryResults : update_scraping_history_call(r)
    \/ get_scraping_stats_call
    \/ read_latest
    \/ get_scraping_stats_return

SpecStats == InitHistory /\ [][NextStats]_vars

\* C30: get_scraping_stats returns {} when it finds the history empty;
\* otherwise the summary it reads is the last one of the history at that
\* moment, the one of the latest completed run and a complete entry, and
\* the timestamp, the categories and the item count it returns are those
\* of that one summary, whatever runs ended during the call.
C30_LatestStats ==
    /\ [][(stats_pc = "idle" /\ stats_pc' # "idle")
          => IF scraping_history = <<>>
             THEN stats_pc' = "returned" /\ DOMAIN stats' = {}
             ELSE stats_pc' = "checked"]_vars
    /\ [][(stats_pc = "checked" /\ stats_pc' # "checked")
          => /\ latest' = scraping_history[Len(scraping_history)]
             /\ latest'.timestamp = cycles
             /\ DOMAIN latest'
                   = {"timestamp", "results_summary", "total_items"}]_vars
    /\ [][(stats_pc = "read" /\ stats_pc' # "read")
          => /\ stats_pc' = "returned"
             /\ stats'.last_scraping = latest.timestamp
             /\ stats'.categories = DOMAIN latest.results_summary
             /\ stats'.total_items = latest.total_items]_vars

\* Witness of C30: a call returned the summary of the run that was the
\* latest when it read the history, another run having ended before the
\* call returned.
C30_Witness ==
    /\ stats_pc = "returned"
    /\ DOMAIN stats # {}
    /\ stats.last_scraping = cycles - 1
    /\ stats.total_items = 1
    /\ stats.categories = {"financial"}
    /\ stats.history_entries = HistoryLimit

----------------------------------------------------------------------------
\* Properties of the run summaries (checked under SpecSched)

\* The number of records behind a value of results: the length of a list,
\* the records of all platforms of the 'jobs' mapping, none for an error.
RECURSIVE PlatformRecords(_, _)
PlatformRecords(m, S) ==
    IF S = {} THEN 0
    ELSE LET n == CHOOSE x \in S : TRUE
         IN Len(m[n].data) + PlatformRecords(m, S \ {n})

RecordsOf(value) ==
    IF value.kind = "list" THEN Len(value.data)
    ELSE IF value.kind = "mapping"
         THEN PlatformRecords(value.data, DOMAIN value.data)
         ELSE 0

RECURSIVE RecordsOfRun(_, _)
RecordsOfRun(r, S) ==
    IF S = {} THEN 0
    ELSE LET c == CHOOSE x \in S : TRUE
         IN RecordsOf(r[c]) + RecordsOfRun(r, S \ {c})

\* C31 (as claimed): in the summary a run appends, the count of a category
\* is the number of records the category produced (an integer, and not the
\* text 'multiple' the summary holds for a value that is not a list), and
\* total_items is the number of records of all categories, those of the
\* platforms of 'jobs' included.
C31_SummaryCounts ==
    mgr_pc = "returned"
    => LET e == scraping_history[Len(scraping_history)]
       IN /\ DOMAIN e.results_summary = DOMAIN results
          /\ e.total_items = RecordsOfRun(results, DOMAIN results)
          /\ \A c \in DOMAIN results :
                IF results[c].kind = "list"
                THEN e.results_summary[c] = RecordsOf(results[c])
                ELSE e.results_summary[c] # "multiple"

----------------------------------------------------------------------------
\* Properties of run_comprehensive_scrape (checked under SpecSched)

\* C32: a category whose scrape is awaited always ends recorded in results,
\* with an error entry when its scrape or its save failed, and the loop
\* goes on to the next category; once the run has returned every category
\* of targets that has a scraper is recorded. (The scrape of a category is
\* only ever awaited on an instance that has a logger: see C10.)
C32_CategoryFailureIsolated ==
    /\ [][(mgr_pc = "scraping" /\ mgr_pc' # "scraping")
          => /\ mgr_pc' = "loop"
             /\ cat_idx' = cat_idx + 1
             /\ targets[cat_idx] \in DOMAIN results'
             /\ (targets[cat_idx] \in DirectScrapers /\ faults' > faults)
                   => results'[targets[cat_idx]] = ErrorResult]_vars
    /\ [](mgr_pc = "returned"
             => \A k \in DOMAIN targets :
                   targets[k] \in ScraperCategories
                   => targets[k] \in DOMAIN results)

\* Witness of C32: the run returned with 'financial' failed and the two
\* categories after it scraped and recorded.
C32_Witness ==
    /\ mgr_pc = "returned"
    /\ DOMAIN results = {"jobs", "financial", "odds", "teams"}
    /\ results["financial"] = ErrorResult
    /\ results["odds"].kind = "list"
    /\ results["teams"].kind = "list"
    /\ Len(scraping_history) = cycles

----------------------------------------------------------------------------
\* The parameters of a call on their way to scrape (job_scrapers.py lines
\* 232-240, base_scraper.py lines 172-176, scraping_manager.py lines 49-55).
\* Keyword arguments are a function from parameter names to values.

\* The keyword lists and the parameters a caller names for 'jobs' in targets;
\* a mapping without 'keywords' makes params.get('keywords') None.
KeywordLists ==
    {<<"python">>, <<"python", "ai">>, <<"ai", "data scientist">>, <<>>}
JobParams ==
    {<<>>} \cup {[keywords |-> PyList(k)] : k \in KeywordLists}

\* The parameters a caller names for a category served by a scraper
\* directly, as the signatures of odds_scrapers.py line 15 and line 120 and
\* of data_scrapers.py line 16 take them.
DirectParams(c) ==
    IF c = "financial"
    THEN {<<>>, [data_types |-> PyList(<<"crypto", "forex">>)],
          [data_types |-> PyList(<<"stocks">>)]}
    ELSE {<<>>, [sports |-> PyList(<<"soccer", "rugby">>)],
          [sports |-> PyList(<<"cricket">>)]}
ParamCategories == {"financial", "odds", "teams"}

\* The locations a search names (the default of line 236 and another).
Locations == {<<"S", "A">>, <<"U", "K">>}

\* What a parameter of the callee is bound to: the argument of that name, or
\* the default None of the signature.
Bound(kwargs, name) ==
    IF name \in DOMAIN kwargs THEN kwargs[name] ELSE PyNone

InitCall ==
    /\ CallIdle
    /\ OrchIdle /\ FetchIdle /\ SchedIdle /\ MgrIdle
    /\ NormIdle /\ RankIdle /\ ScrapeIdle /\ StatsIdle

\* search_jobs lines 236-240: the keywords are the query and its words, and
\* scrape_all_jobs is called with them.
search_jobs_call(q, location) ==
    /\ call_pc = "idle"
    /\ supplied' = [keywords |-> PyList(<<q>> \o Split(q)),
                    location |-> PyStr(location)]
    /\ call_pc' = "scrape_all_jobs"
    /\ UNCHANGED scrape_args
    /\ UNCHANGED <<orchVars, fetchVars, schedVars, mgrVars, normVars,
                   rankVars, scrapeVars, statsVars, overlapVars>>

\* run_comprehensive_scrape lines 49-52, category 'jobs': scrape_all_jobs
\* is called with params.get('keywords').
jobs_category_call(params) ==
    /\ call_pc = "idle"
    /\ supplied' = params
    /\ call_pc' = "scrape_all_jobs"
    /\ UNCHANGED scrape_args
    /\ UNCHANGED <<orchVars, fetchVars, schedVars, mgrVars, normVars,
                   rankVars, scrapeVars, statsVars, overlapVars>>

\* scrape_all_jobs lines 232-234: run_scrapers() is called without
\* arguments: nothing of keywords is handed on.
HandedOn(kwargs) == <<>>

\* scrape_all_jobs line 234.
scrape_all_jobs_call ==
    /\ call_pc = "scrape_all_jobs"
    /\ call_pc' = "run_scrapers"
    /\ UNCHANGED <<supplied, scrape_args>>
    /\ UNCHANGED <<orchVars, fetchVars, schedVars, mgrVars, normVars,
                   rankVars, scrapeVars, statsVars, overlapVars>>

\* _run_single_scraper line 176 in the coroutine of scraper n:
\* scraper.scrape() is invoked with what scrape_all_jobs handed on.
run_single_scraper_scrape(n) ==
    /\ call_pc = "run_scrapers"
    /\ n \notin DOMAIN scrape_args
    /\ scrape_args' = [m \in DOMAIN scrape_args \cup {n} |->
                          IF m = n THEN HandedOn(supplied) ELSE scrape_args[m]]
    /\ UNCHANGED <<call_pc, supplied>>
    /\ UNCHANGED <<orchVars, fetchVars, schedVars, mgrVars, normVars,
                   rankVars, scrapeVars, statsVars, overlapVars>>

\* run_scrapers line 161: every coroutine has ended.
run_scrapers_gathered ==
    /\ call_pc = "run_scrapers"
    /\ DOMAIN scrape_args = Names
    /\ call_pc' = "returned"
    /\ UNCHANGED <<supplied, scrape_args>>
    /\ UNCHANGED <<orchVars, fetchVars, schedVars, mgrVars, normVars,
                   rankVars, scrapeVars, statsVars, overlapVars>>

\* run_comprehensive_scrape lines 53-54, a category other than 'jobs':
\* scrape(**params).
direct_category_call(c, params) ==
    /\ call_pc = "idle"
    /\ supplied' = params
    /\ scrape_args' = [m \in {c} |-> params]
    /\ call_pc' = "returned"
    /\ UNCHANGED <<orchVars, fetchVars, schedVars, mgrVars, normVars,
                   rankVars, scrapeVars, statsVars, overlapVars>>

NextCall ==
    \/ \E q \in Queries, l \in Locations : search_jobs_call(q, l)
    \/ \E p \in JobParams : jobs_category_call(p)
    \/ scrape_all_jobs_call
    \/ \E n \in Names : run_single_scraper_scrape(n)
    \/ run_scrapers_gathered
    \/ \E c \in ParamCategories : \E p \in DirectParams(c) :
          direct_category_call(c, p)

SpecCall == InitCall /\ [][NextCall]_vars

\* C33 (as claimed): the scrape of a source is invoked with the parameters
\* the caller supplied for it: every job-board scrape has its keywords bound
\* to the keywords of the search or of the 'jobs' category, and the scrape
\* of any other category is invoked with the category's parameters.
C33_ParametersReachScrape ==
    \A n \in DOMAIN scrape_args :
        IF n \in Names
        THEN Bound(scrape_args[n], "keywords") = Bound(supplied, "keywords")
        ELSE scrape_args[n] = supplied

----------------------------------------------------------------------------
\* The order of the records search_jobs hands to rank_jobs (checked under
\* SpecSearch)

\* The place of a source in the registration order.
PlaceOf(n) == CHOOSE k \in DOMAIN Registered : Registered[k] = n

----------------------------------------------------------------------------
\* The routes of src/api/scraping_routes.py on the manager they share (line
\* 6): /api/scraping/run, /api/scraping/jobs/search, /api/scraping/stats and
\* the route of one source, /api/scraping/odds/sports

\* A category no scraper is registered for (scraping_manager.py lines 20-28).
UnservedCategories == {"news"}

\* The targets of the runs that are followed: none (the default of
\* scraping_routes.py line 13), one category, and a category without a
\* scraper before one with a scraper.
RouteTargets == {<<>>, <<"financial">>, <<"news", "odds">>}

\* The histories the manager starts from: that of a fresh one and a full one.
RouteHistories == {0, HistoryLimit}

InitRoutes ==
    /\ has_logger \in BOOLEAN
    /\ interval_minutes = 60
    /\ sched_pc = "idle"
    /\ slept = <<>>
    /\ cycles \in RouteHistories
    /\ scraping_history = HistoryAfter(cycles)
    /\ mgr_pc = "idle"
    /\ targets = <<>>
    /\ cat_idx = 1
    /\ results = <<>>
    /\ faults = 0
    /\ variant = "odds"
    /\ request_delay = TicksPerSecond
    /\ plan = <<"fetch_url">>
    /\ scrape_pc = "idle"
    /\ fetched = <<>>
    /\ all_items = <<>>
    /\ events = <<>>
    /\ scrape_result = None
    /\ OrchIdle /\ FetchIdle /\ NormIdle /\ RankIdle /\ StatsIdle /\ CallIdle

\* The requests are followed one after the other: none is under way.
Quiet ==
    /\ mgr_pc \in {"idle", "returned", "raised"}
    /\ stats_pc \in {"idle", "returned"}
    /\ scrape_pc \in {"idle", "returned", "raised"}

\* scraping_routes.py lines 8-15: run_comprehensive_scrape(targets) is
\* awaited. Runs are stamped with their number.
run_scraping(t) ==
    /\ Quiet
    /\ \E n \in RouteHistories : n <= cycles /\ cycles < n + MaxCycles
    /\ cycles' = cycles + 1
    /\ run_comprehensive_scrape_call(t)
    /\ UNCHANGED <<has_logger, interval_minutes, sched_pc, slept>>
    /\ UNCHANGED <<orchVars, fetchVars, dataVars>>

\* How the coroutines of a search of the route end: every source with one
\* record, or one of them with its scrape failed.
SearchOutcomes ==
    {[n \in Names |->
        IF n = f THEN [failed |-> "scrape", count |-> 0, raised |-> FALSE]
        ELSE [failed |-> "none", count |-> 1, raised |-> FALSE]] :
     f \in {None, "indeed"}}

\* scraping_routes.py lines 95-99: get_scraping_stats is called.
get_stats ==
    /\ Quiet
    /\ get_scraping_stats_call

\* scraping_routes.py lines 73-80: the scrape of the odds scraper is awaited.
get_sports_odds ==
    /\ Quiet
    /\ scrape_call

\* scraping_routes.py lines 29-38: search_jobs on the job manager of the
\* shared manager.
jobs_search ==
    /\ Quiet
    /\ \E out \in SearchOutcomes :
          search_jobs_returns(out, [n \in Names |-> <<"b", "a">>], <<1, 2, 3>>)

NextRoutes ==
    \/ \E t \in RouteTargets : run_scraping(t)
    \/ begin_category
    \/ \E c \in CategoryBatchSizes, save_ok \in BOOLEAN :
          category_scrape_returns(c, save_ok)
    \/ category_scrape_raises
    \/ run_comprehensive_scrape_return
    \/ get_stats
    \/ read_latest
    \/ get_scraping_stats_return
    \/ jobs_search
    \/ get_sports_odds
    \/ \E o \in FetchOutcomes : fetch_url_returned(o)
    \/ request_delay_elapsed

SpecRoutes == InitRoutes /\ [][NextRoutes]_vars

\* C35: the history changes only when a call of run_comprehensive_scrape
\* returns, and every returning call appends exactly one summary, that of
\* its own results (dropping the oldest entry of a full history), also when
\* its targets are empty or all its categories failed; reads of the stats,
\* searches and the scrape of a single source leave the history as it is.
C35_HistoryOnlyOnCompletion ==
    /\ [][scraping_history' # scraping_history
             => mgr_pc = "loop" /\ mgr_pc' = "returned"]_vars
    /\ [][(mgr_pc # "returned" /\ mgr_pc' = "returned")
             => /\ scraping_history' # <<>>
                /\ LET e == scraping_history'[Len(scraping_history')]
                       a == Append(scraping_history, e)
                   IN /\ e.timestamp = cycles
                      /\ DOMAIN e.results_summary = DOMAIN results
                      /\ scraping_history' =
                            IF Len(a) > HistoryLimit THEN Tail(a) ELSE a]_vars

\* Witness of C35: a run over no targets and a run whose only category
\* failed have each left their summary, and a stats read, a search and the
\* scrape of the odds route have run as well.
C35_Witness ==
    /\ mgr_pc = "returned"
    /\ Len(scraping_history) = 2
    /\ DOMAIN scraping_history[1].results_summary = {}
    /\ DOMAIN scraping_history[2].results_summary = {"financial"}
    /\ results = SetResult(<<>>, "financial", ErrorResult)
    /\ stats_pc = "returned"
    /\ rank_pc = "returned"
    /\ scrape_pc = "returned"

\* C36 (as claimed): the mapping run_comprehensive_scrape(targets) returns
\* has an entry for every category named in targets, and for no other.
C36_EntryPerTarget ==
    mgr_pc = "returned" => DOMAIN results = Range(targets)

----------------------------------------------------------------------------
\* The names of the entries of run_scrapers (checked under Spec)

\* C37 (as claimed): whatever names run_scrapers is called with, names no
\* scraper is registered under included, every entry of the mapping it
\* returns is under the name of a registered scraper and holds what the
\* coroutine of that scraper ended with, and every requested name that has a
\* scraper has its entry.
C37_EntriesUnderOwnName ==
    run_pc = "returned"
    => /\ \A n \in DOMAIN consolidated :
             /\ \E i \in DOMAIN tasks : tasks[i].name = n
             /\ consolidated[n] = Entry(TaskResult(tasks[TaskOf(n)]))
       /\ \A k \in DOMAIN scraper_names :
             scraper_names[k] \in Names
             => scraper_names[k] \in DOMAIN consolidated

----------------------------------------------------------------------------
\* Invocations of one registered scraper instance that overlap: each search
\* of scraping_routes.py lines 29-38 runs _run_single_scraper (base_scraper.py
\* lines 172-183) on the scrapers of the one job manager of the shared
\* manager (job_scrapers.py lines 219-234)

\* The invocations that are followed.
MaxInvocations == 2
Invocations == 1..MaxInvocations

\* The requests one scrape makes at most.
MaxRequests == 2

InitOverlap ==
    /\ inv = [i \in Invocations |->
                 [pc |-> "idle", requests |-> 0, met_closed |-> FALSE]]
    /\ self_session = 0
    /\ client_sessions = <<>>
    /\ ParamIdle
    /\ OrchIdle /\ FetchIdle /\ SchedIdle /\ MgrIdle
    /\ NormIdle /\ RankIdle /\ ScrapeIdle /\ StatsIdle

\* Lines 172-174: the coroutine of invocation i starts.
run_single_scraper_call(i) ==
    /\ inv[i].pc = "idle"
    /\ inv' = [inv EXCEPT ![i].pc = "entered"]
    /\ UNCHANGED <<self_session, client_sessions>>
    /\ UNCHANGED <<orchVars, fetchVars, schedVars, mgrVars, normVars,
                   rankVars, scrapeVars, statsVars, paramVars>>

\* initialize, lines 41-46 (line 175): a new ClientSession is made and
\* self.session is set to it; the one it held is neither closed nor kept.
initialize(i) ==
    /\ inv[i].pc = "entered"
    /\ client_sessions' = Append(client_sessions, "open")
    /\ self_session' = Len(client_sessions) + 1
    /\ inv' = [inv EXCEPT ![i].pc = "scraping"]
    /\ UNCHANGED <<orchVars, fetchVars, schedVars, mgrVars, normVars,
                   rankVars, scrapeVars, statsVars, paramVars>>

\* fetch_url line 71 during the scrape of line 176: a request is made on
\* what self.session holds now; on a closed ClientSession it raises.
session_request(i) ==
    /\ inv[i].pc = "scraping"
    /\ inv[i].requests < MaxRequests
    /\ inv' = [inv EXCEPT
          ![i].requests = @ + 1,
          ![i].met_closed = @ \/ client_sessions[self_session] = "closed"]
    /\ UNCHANGED <<self_session, client_sessions>>
    /\ UNCHANGED <<orchVars, fetchVars, schedVars, mgrVars, normVars,
                   rankVars, scrapeVars, statsVars, paramVars>>

\* Lines 176-178: scrape returns (or raises) and `finally` is entered.
scrape_ended(i) ==
    /\ inv[i].pc = "scraping"
    /\ inv' = [inv EXCEPT ![i].pc = "closing"]
    /\ UNCHANGED <<self_session, client_sessions>>
    /\ UNCHANGED <<orchVars, fetchVars, schedVars, mgrVars, normVars,
                   rankVars, scrapeVars, statsVars, paramVars>>

\* close, lines 48-51 (line 183): what self.session holds now is closed;
\* the attribute keeps holding it.
close(i) ==
    /\ inv[i].pc = "closing"
    /\ client_sessions' =
          IF self_session = 0 THEN client_sessions
          ELSE [client_sessions EXCEPT ![self_session] = "closed"]
    /\ inv' = [inv EXCEPT ![i].pc = "done"]
    /\ UNCHANGED self_session
    /\ UNCHANGED <<orchVars, fetchVars, schedVars, mgrVars, normVars,
                   rankVars, scrapeVars, statsVars, paramVars>>

NextOverlap ==
    \E i \in Invocations :
        \/ run_single_scraper_call(i)
        \/ initialize(i)
        \/ session_request(i)
        \/ scrape_ended(i)
        \/ close(i)

SpecOverlap == InitOverlap /\ [][NextOverlap]_vars

\* An invocation is between its initialize and the end of its scrape.
UsingSession(i) == inv[i].pc = "scraping"

\* C38 (as claimed): the session of a source is not replaced and not closed
\* while an invocation of the source is still using it, and no request of
\* an invocation is made on a closed session.
C38_SessionNotSharedAcrossRuns ==
    /\ [][(\/ self_session' # self_session
           \/ \E k \in DOMAIN client_sessions :
                 client_sessions[k] = "open" /\ client_sessions'[k] = "closed")
          => \A i \in Invocations : ~UsingSession(i)]_vars
    /\ [](\A i \in Invocations : ~inv[i].met_closed)

----------------------------------------------------------------------------
\* Records and the failure to persist them (checked under Spec)

\* C39 (as claimed): when run_scrapers has returned for registered sources,
\* every source whose scrape returned its records, and whose invocation no
\* exception left, has an entry with error None that holds those records,
\* whether save_data went through or raised.
C39_RecordsSurviveSaveFailure ==
    (run_pc = "returned" /\ AllRegistered)
    => \A j \in DOMAIN tasks :
          (tasks[j].scraped /\ ~tasks[j].raised)
          => /\ tasks[j].name \in DOMAIN consolidated
             /\ consolidated[tasks[j].name].error = None
             /\ consolidated[tasks[j].name].data = tasks[j].produced

----------------------------------------------------------------------------
\* rank_jobs on the records normalize_data returns: the records a job scraper
\* hands back (job_scrapers.py line 40) are those search_jobs ranks

\* What a field of a record holds before normalize_data: None, the empty
\* string (e.g. the text of an empty heading, job_scrapers.py line 58),
\* blanks, or a text.
ScrapedTexts == {PyNone, PyStr(<<>>), PyStr(<<" ">>), PyStr(<<"b", "a", " ">>)}

\* The records a parser builds, every one with a title and a summary key,
\* and the batches of them.
ScrapedJobs == [{"title", "summary"} -> ScrapedTexts]
ScrapedBatches == UNION {[1..l -> ScrapedJobs] : l \in 0..(MaxJobs - 1)}

InitRankNormalized ==
    /\ batch \in ScrapedBatches
    /\ passes = 0
    /\ query \in Queries
    /\ now = NowTick
    /\ jobs = <<>>
    /\ ranked = <<>>
    /\ rank_pc = "idle"
    /\ RestIdle /\ OrchIdle /\ FetchIdle /\ SchedIdle /\ MgrIdle

\* The records as rank_jobs reads them: each field a str.
AsJobs(data) == [i \in DOMAIN data |-> [k \in DOMAIN data[i] |-> data[i][k].v]]

\* rank_jobs lines 251-285 on the normalized batch: job['title'] (line 259)
\* raises KeyError on the first record without a title; job.get('summary',
\* '') (line 266) does not raise.
rank_jobs_normalized ==
    /\ rank_pc = "idle"
    /\ passes >= 1
    /\ jobs' = AsJobs(batch)
    /\ IF \A i \in DOMAIN jobs' : "title" \in DOMAIN jobs'[i]
       THEN ranked' = rank_jobs(jobs', query, now) /\ rank_pc' = "returned"
       ELSE ranked' = ranked /\ rank_pc' = "raised"
    /\ UNCHANGED <<query, now>>
    /\ UNCHANGED <<orchVars, fetchVars, schedVars, mgrVars, normVars, restVars>>

NextRankNormalized ==
    \/ normalize_data_call
    \/ rank_jobs_normalized

SpecRankNormalized == InitRankNormalized /\ [][NextRankNormalized]_vars

\* C40 (as claimed): rank_jobs called on records normalize_data returned
\* does not fail and returns every one of them with a score; a record that
\* lost its title and its summary scores 0.
C40_RanksNormalizedRecords ==
    (passes >= 1 /\ rank_pc # "idle")
    => /\ rank_pc = "returned"
       /\ Len(ranked) = Len(batch)
       /\ \A i \in DOMAIN jobs :
             \E k \in DOMAIN ranked : Unscored(ranked[k]) = jobs[i]
       /\ \A k \in DOMAIN ranked :
             DOMAIN ranked[k] = {"relevance_score"}
             => ranked[k].relevance_score = 0

====
